---- MODULE Spec2Model ----
(***************************************************************************)
(* Model of the call-signaling log engine: SignalParser (line extraction,  *)
(* grouping by callId, classification, statistics, export) and Visualizer  *)
(* (ordering of a session's events for the diagram and the log list, the   *)
(* documents, writeToFile), the POST /api/visualize route, and             *)
(* LogPreprocessor.processSingleFile.                                      *)
(*                                                                         *)
(* A log line is represented by what the code's substring tests and        *)
(* regular expressions find in it (see Line below), not by its characters. *)
(* JavaScript runs one turn at a time: every action below is one           *)
(* synchronous turn of the program, and the await points of the async      *)
(* methods are the boundaries between actions.                             *)
(***************************************************************************)
EXTENDS Integers, Sequences, FiniteSets, TLC

\* ---------------------------------------------------------------- bounds
MaxFileLen == 2     \* lines per input file
MaxEvents == 3      \* events accepted by one parser between two clears
MaxDirFiles == 2    \* eligible files in a directory given to parseLogDirectory
MaxType == 2        \* largest nested type value written in an input line
MaxLogs == 2        \* events of the session given to the renderer
MaxTs == 2          \* largest timestamp written in a rendered line
MaxContext == 1     \* lines before, and lines after, the line a scanning run looks at
MaxMs == 2          \* largest value Date.now() returns while uploads are stored

\* ------------------------------------------------------- absent values
\* `null` / `undefined` of a string-valued result
Null == "null"
\* `null` / `undefined` of a number-valued result (the regexes capture \d+,
\* so no extracted number is negative)
NoNum == -1

CallIds == {"a", "b"}
Categories == {"oneToOne", "group", "unknown"}

\* --------------------------------------------------------------- lines
\* What the code can tell about one line of input:
\*   marker       line.includes('rtcCallWithAgora')
\*   command      line.includes('contents : [ { contenttype : COMMAND, action : rtcCall } ]')
\*   text         line.includes('contenttype : TEXT')
\*   invite       "exact": the line contains '{ key : action, type : 7, value : invite }'
\*                "loose": it contains 'key : action, type : 7, value : invite'
\*                         but not inside that exact brace form
\*                "none" : it contains neither
\*   callId, from, to, action, ts   first capture of the field's regex, or absent
\*   msgTimestamp                   the outer message timestamp, or absent
\*   nestedType   first capture of /{ key : type, type : \d+, value : (\d+) }/
Line(marker, command, text, invite, callId, action, ts, msg, nestedType) ==
    [marker |-> marker, command |-> command, text |-> text, invite |-> invite,
     callId |-> callId,
     from |-> IF callId = Null THEN Null ELSE "u1",
     to |-> IF callId = Null THEN Null ELSE "u2",
     action |-> action, ts |-> ts, msgTimestamp |-> msg, nestedType |-> nestedType]

\* a command-payload signaling line of call c
CommandLine(c, ts, msg) == Line(TRUE, TRUE, FALSE, "none", c, "alert", ts, msg, NoNum)
\* a text-payload invite line of call c whose nested type field is v (or absent)
InviteLine(c, v) == Line(TRUE, FALSE, TRUE, "exact", c, "invite", 1, NoNum, v)
\* a text-payload invite line whose invite token is not in the exact brace form
LooseInviteLine(c) == Line(TRUE, FALSE, TRUE, "loose", c, "invite", 1, NoNum, 0)

RejectedLines ==
    { Line(FALSE, TRUE, FALSE, "none", "a", "alert", 1, NoNum, NoNum),   \* no marker
      Line(TRUE, TRUE, FALSE, "none", Null, "alert", 1, NoNum, NoNum) }  \* callId not extractable

\* the lines of the parser's inputs: call "a" with every shape of line, call
\* "b" with a command line and a group invite
ParserLines ==
    { CommandLine(c, 1, NoNum) : c \in CallIds }
      \cup { InviteLine("a", v) : v \in {NoNum} \cup (0..MaxType) }
      \cup { InviteLine("b", MaxType), LooseInviteLine("a") }
      \cup RejectedLines

\* all sequences over S of length at most n
SeqUpTo(S, n) == UNION { [1..k -> S] : k \in 0..n }

\* --------------------------------------------------------------- state
VARIABLES
    rtcCallLogs,       \* ParsedLogInfo[]: every accepted event, in scan order
    callIdToLogsMap,   \* Map callId -> ParsedLogInfo[], as its entries in insertion order
    oneToOneCallMap,   \* Map callId -> the session's array: its keys in insertion order
    groupCallMap,      \* (the values are the very arrays held by callIdToLogsMap)
    unknownCallMap,
    callTypeMap,       \* Map callId -> category, as a function on its keys
    pc,                \* where the caller's pending call stands, or how the last one ended
    dirLeft,           \* eligible files of the directory not yet parsed
    ret,               \* the count a parseLogFile call resolved with and its caller
                       \* has not yet taken, NoNum when there is none
    countSum,          \* sum of the counts parseLogFile calls returned since the last clear
    input,             \* the content of the file a scanning run reads
    diagram,           \* what the last generateMermaidForCall returned
    report,            \* what the last generateHtml / generateMermaid returned
    writeCall,         \* where the last writeToFile call stands
    outFiles,          \* the files writeToFile has written: path -> content
    requests,          \* the POST /api/visualize requests: id -> its progress
    tempDir,           \* the upload directory: path -> file
    calls,             \* parseLogFile calls pending together on the parser: id -> its progress
    prep,              \* where the last LogPreprocessor.processSingleFile call stands
    disk               \* the files the preprocessor works on: path -> content

vars == <<rtcCallLogs, callIdToLogsMap, oneToOneCallMap, groupCallMap,
          unknownCallMap, callTypeMap, pc, dirLeft, ret, countSum,
          input, diagram, report, writeCall, outFiles, requests, tempDir,
          calls, prep, disk>>

\* what the parser's methods neither read nor write
besideParser == <<input, diagram, report, writeCall, outFiles, requests, tempDir,
                  calls, prep, disk>>

\* the parser's fields as one value
Parser ==
    [rtcCallLogs |-> rtcCallLogs, callIdToLogsMap |-> callIdToLogsMap,
     oneToOneCallMap |-> oneToOneCallMap, groupCallMap |-> groupCallMap,
     unknownCallMap |-> unknownCallMap, callTypeMap |-> callTypeMap]

SetParser(p) ==
    /\ rtcCallLogs' = p.rtcCallLogs
    /\ callIdToLogsMap' = p.callIdToLogsMap
    /\ oneToOneCallMap' = p.oneToOneCallMap
    /\ groupCallMap' = p.groupCallMap
    /\ unknownCallMap' = p.unknownCallMap
    /\ callTypeMap' = p.callTypeMap

ParserUnchanged ==
    UNCHANGED <<rtcCallLogs, callIdToLogsMap, oneToOneCallMap, groupCallMap,
                unknownCallMap, callTypeMap>>

\* new SignalParser()
NewParser ==
    [rtcCallLogs |-> <<>>, callIdToLogsMap |-> <<>>,
     oneToOneCallMap |-> <<>>, groupCallMap |-> <<>>, unknownCallMap |-> <<>>,
     callTypeMap |-> <<>>]

\* ------------------------------------------------------- Map helpers
\* keys of a Map kept as a sequence of keys
KeySet(keys) == { keys[i] : i \in 1..Len(keys) }
\* Map.set on a Map kept as a sequence of keys: an existing key keeps its place
KeysSet(keys, k) == IF k \in KeySet(keys) THEN keys ELSE Append(keys, k)
\* keys of callIdToLogsMap, in insertion order
SessionKeys(m) == [i \in 1..Len(m) |-> m[i].callId]
\* callIdToLogsMap.has(callId)
HasSession(m, c) == \E i \in 1..Len(m) : m[i].callId = c
\* callIdToLogsMap.get(callId)
LogsOf(m, c) == LET i == CHOOSE j \in 1..Len(m) : m[j].callId = c IN m[i].logs

\* ---------------------------------------------------------- extraction
extractCallId(l) == l.callId
extractFrom(l) == l.from
extractTo(l) == l.to
extractAction(l) == l.action
extractTs(l) == l.ts
\* the secondary pass that recovers the outer message timestamp
extractMsgTimestamp(l) == l.msgTimestamp

\* <<info>> when all five fields are found, <<>> for null
extractLogInfo(l) ==
    IF /\ extractCallId(l) # Null /\ extractFrom(l) # Null /\ extractTo(l) # Null
       /\ extractAction(l) # Null /\ extractTs(l) # NoNum
    THEN << [callId |-> extractCallId(l), from |-> extractFrom(l), to |-> extractTo(l),
             action |-> extractAction(l), ts |-> extractTs(l),
             msgTimestamp |-> extractMsgTimestamp(l), rawLog |-> l] >>
    ELSE <<>>

\* faulty variant of Qualifies: the invite token is not asked for
QualifiesAnyPayload(l) ==
    l.marker /\ (l.command \/ l.text)

\* faulty variant of Qualifies: only the signaling marker is asked for
QualifiesMarkerOnly(l) ==
    l.marker

\* the condition under which parseLogFile looks at a line at all
Qualifies(l) ==
    l.marker /\ (l.command \/ (l.text /\ l.invite # "none"))

\* the lines parseLogFile turns into an event
Accepted(l) == Qualifies(l) /\ extractLogInfo(l) # <<>>

\* ------------------------------------------------------ classification
\* faulty variant of extractCallType: `<` for `<=`
extractCallTypeLt(l) ==
    IF l.invite = "exact" /\ l.text
    THEN IF l.nestedType # NoNum
         THEN (IF l.nestedType < 1 THEN "oneToOne" ELSE "group")
         ELSE Null
    ELSE Null

extractCallType(l) ==
    IF l.invite = "exact" /\ l.text
    THEN IF l.nestedType # NoNum
         THEN (IF l.nestedType <= 1 THEN "oneToOne" ELSE "group")
         ELSE Null
    ELSE Null

\* faulty variant of ClassifyFrom: of the invite lines that yield a type the
\* one with the earliest display time (`msgTimestamp || ts`) decides
ClassifyEarliestInvite(logs, i) ==
    LET typed == { j \in i..Len(logs) : extractCallType(logs[j].rawLog) # Null }
        time(j) == IF logs[j].msgTimestamp # NoNum /\ logs[j].msgTimestamp # 0
                   THEN logs[j].msgTimestamp ELSE logs[j].ts
    IN  IF typed = {} THEN "unknown"
        ELSE LET j == CHOOSE k \in typed :
                        \A m \in typed : time(k) < time(m) \/ (time(k) = time(m) /\ k <= m)
             IN  extractCallType(logs[j].rawLog)

\* faulty variant of ClassifyFrom: the first invite line decides alone
ClassifyFirstInviteOnly(logs, i) ==
    LET invites == { j \in i..Len(logs) :
                       logs[j].rawLog.invite = "exact" /\ logs[j].rawLog.text }
    IN  IF invites = {} THEN "unknown"
        ELSE LET j == CHOOSE k \in invites : \A m \in invites : k <= m
                 callType == extractCallType(logs[j].rawLog)
             IN  IF callType # Null THEN callType ELSE "unknown"

\* faulty variant of ClassifyFrom: the fallback records 'oneToOne'
RECURSIVE ClassifyFallbackOneToOne(_, _)
ClassifyFallbackOneToOne(logs, i) ==
    IF i > Len(logs) THEN "oneToOne"
    ELSE LET callType == extractCallType(logs[i].rawLog)
         IN  IF callType # Null THEN callType ELSE ClassifyFallbackOneToOne(logs, i + 1)

\* the loop of classifyCall from event i on: the category it records
RECURSIVE ClassifyFrom(_, _)
ClassifyFrom(logs, i) ==
    IF i > Len(logs) THEN "unknown"
    ELSE LET callType == extractCallType(logs[i].rawLog)
         IN  IF callType # Null THEN callType ELSE ClassifyFrom(logs, i + 1)

\* callTypeMap after this.callTypeMap.set(callId, ...)
MapPut(f, k, v) == [x \in DOMAIN f \cup {k} |-> IF x = k THEN v ELSE f[x]]

\* classifyCall(callId, logs): the callTypeMap it leaves
classifyCall(ctm, callId, logs) == MapPut(ctm, callId, ClassifyFrom(logs, 1))

\* faulty variant of ReclassifyEntry: the category is read before classifyCall ran
ReclassifyStaleRead(p, e) ==
    LET callType == IF e.callId \in DOMAIN p.callTypeMap
                    THEN p.callTypeMap[e.callId] ELSE "unknown"
        ctm == IF e.callId \in DOMAIN p.callTypeMap THEN p.callTypeMap
               ELSE classifyCall(p.callTypeMap, e.callId, e.logs)
    IN  [p EXCEPT !.callTypeMap = ctm,
                  !.oneToOneCallMap = IF callType = "oneToOne" THEN KeysSet(@, e.callId) ELSE @,
                  !.groupCallMap = IF callType = "group" THEN KeysSet(@, e.callId) ELSE @,
                  !.unknownCallMap = IF callType \notin {"oneToOne", "group"}
                                     THEN KeysSet(@, e.callId) ELSE @]

\* faulty variant of ReclassifyEntry: no callTypeMap.has test
ReclassifyAlways(p, e) ==
    LET ctm == classifyCall(p.callTypeMap, e.callId, e.logs)
        callType == ctm[e.callId]
    IN  [p EXCEPT !.callTypeMap = ctm,
                  !.oneToOneCallMap = IF callType = "oneToOne" THEN KeysSet(@, e.callId) ELSE @,
                  !.groupCallMap = IF callType = "group" THEN KeysSet(@, e.callId) ELSE @,
                  !.unknownCallMap = IF callType \notin {"oneToOne", "group"}
                                     THEN KeysSet(@, e.callId) ELSE @]

\* faulty variant of ReclassifyEntry: no target map for 'unknown'
ReclassifyDropsUnknown(p, e) ==
    LET ctm == IF e.callId \in DOMAIN p.callTypeMap THEN p.callTypeMap
               ELSE classifyCall(p.callTypeMap, e.callId, e.logs)
        callType == ctm[e.callId]
    IN  [p EXCEPT !.callTypeMap = ctm,
                  !.oneToOneCallMap = IF callType = "oneToOne" THEN KeysSet(@, e.callId) ELSE @,
                  !.groupCallMap = IF callType = "group" THEN KeysSet(@, e.callId) ELSE @]

\* one iteration of the forEach of reclassifyAllCalls, on entry e
ReclassifyEntry(p, e) ==
    LET ctm == IF e.callId \in DOMAIN p.callTypeMap THEN p.callTypeMap
               ELSE classifyCall(p.callTypeMap, e.callId, e.logs)
        callType == ctm[e.callId]
    IN  [p EXCEPT !.callTypeMap = ctm,
                  !.oneToOneCallMap = IF callType = "oneToOne" THEN KeysSet(@, e.callId) ELSE @,
                  !.groupCallMap = IF callType = "group" THEN KeysSet(@, e.callId) ELSE @,
                  !.unknownCallMap = IF callType \notin {"oneToOne", "group"}
                                     THEN KeysSet(@, e.callId) ELSE @]

RECURSIVE ReclassifyFrom(_, _)
ReclassifyFrom(p, i) ==
    IF i > Len(p.callIdToLogsMap) THEN p
    ELSE ReclassifyFrom(ReclassifyEntry(p, p.callIdToLogsMap[i]), i + 1)

\* reclassifyAllCalls()
reclassifyAllCalls(p) ==
    ReclassifyFrom([p EXCEPT !.oneToOneCallMap = <<>>, !.groupCallMap = <<>>,
                             !.unknownCallMap = <<>>], 1)

\* ------------------------------------------------------------ scanning
\* faulty variant of AddToSession: the array is replaced, not pushed on
AddToSessionOverwrite(m, info) ==
    IF HasSession(m, info.callId)
    THEN [i \in 1..Len(m) |->
            IF m[i].callId = info.callId
            THEN [m[i] EXCEPT !.logs = <<info>>] ELSE m[i]]
    ELSE Append(m, [callId |-> info.callId, logs |-> <<info>>])

\* faulty variant of AddToSession: unshift for push
AddToSessionUnshift(m, info) ==
    IF HasSession(m, info.callId)
    THEN [i \in 1..Len(m) |->
            IF m[i].callId = info.callId
            THEN [m[i] EXCEPT !.logs = <<info>> \o @] ELSE m[i]]
    ELSE Append(m, [callId |-> info.callId, logs |-> <<info>>])

\* faulty variant of AddToSession: the entry is created by
\* `callIdToLogsMap.set(callId, [])` and the push that follows is left out
AddToSessionCreatesEmpty(m, info) ==
    IF HasSession(m, info.callId)
    THEN [i \in 1..Len(m) |->
            IF m[i].callId = info.callId
            THEN [m[i] EXCEPT !.logs = Append(@, info)] ELSE m[i]]
    ELSE Append(m, [callId |-> info.callId, logs |-> <<>>])

\* faulty variant of AddToSession: an event equal to one the session already
\* holds is not pushed again
AddToSessionDedup(m, info) ==
    IF HasSession(m, info.callId)
    THEN [i \in 1..Len(m) |->
            IF m[i].callId = info.callId
               /\ \A k \in 1..Len(m[i].logs) : m[i].logs[k] # info
            THEN [m[i] EXCEPT !.logs = Append(@, info)] ELSE m[i]]
    ELSE Append(m, [callId |-> info.callId, logs |-> <<info>>])

\* push logInfo on the array of its callId, creating the entry when absent
AddToSession(m, info) ==
    IF HasSession(m, info.callId)
    THEN [i \in 1..Len(m) |->
            IF m[i].callId = info.callId
            THEN [m[i] EXCEPT !.logs = Append(@, info)] ELSE m[i]]
    ELSE Append(m, [callId |-> info.callId, logs |-> <<info>>])

\* the body of the for loop of parseLogFile on one line
ScanLine(p, l) ==
    IF Accepted(l)
    THEN LET info == extractLogInfo(l)[1]
         IN  [p EXCEPT !.rtcCallLogs = Append(@, info),
                       !.callIdToLogsMap = AddToSession(@, info)]
    ELSE p

\* faulty variant of ScanLines: a line that cannot be extracted ends the scan
RECURSIVE ScanLinesStopAtUnparsable(_, _, _)
ScanLinesStopAtUnparsable(p, lines, i) ==
    IF i > Len(lines) THEN p
    ELSE IF Qualifies(lines[i]) /\ extractLogInfo(lines[i]) = <<>> THEN p
    ELSE ScanLinesStopAtUnparsable(ScanLine(p, lines[i]), lines, i + 1)

\* the for loop of parseLogFile from line i on
RECURSIVE ScanLines(_, _, _)
ScanLines(p, lines, i) ==
    IF i > Len(lines) THEN p ELSE ScanLines(ScanLine(p, lines[i]), lines, i + 1)

\* faulty variant of CountAccepted: count++ before the extraction is tested
RECURSIVE CountQualifying(_, _)
CountQualifying(lines, i) ==
    IF i > Len(lines) THEN 0
    ELSE (IF Qualifies(lines[i]) THEN 1 ELSE 0)
         + CountQualifying(lines, i + 1)

\* `count` of parseLogFile
RECURSIVE CountAccepted(_, _)
CountAccepted(lines, i) ==
    IF i > Len(lines) THEN 0
    ELSE (IF Accepted(lines[i]) THEN 1 ELSE 0)
         + CountAccepted(lines, i + 1)

\* faulty variant of ParseContent: the call works on the state the parser
\* had when it was constructed, not on the one it finds when readFile resolves
ParseContentFromNew(p, content) == reclassifyAllCalls(ScanLines(NewParser, content, 1))

\* parseLogFile after its file was read: scan every line, then rebuild
ParseContent(p, content) == reclassifyAllCalls(ScanLines(p, content, 1))

\* ---------------------------------------------------------- statistics
\* faulty variant of getCallTypeStatistics: the unknown counter is what is
\* left of the total after the two typed partitions
getCallTypeStatisticsTypedOnly(p) ==
    [total |-> Len(p.callIdToLogsMap), oneToOne |-> Len(p.oneToOneCallMap),
     group |-> Len(p.groupCallMap), unknown |-> 0]

\* getCallTypeStatistics()
getCallTypeStatistics(p) ==
    [total |-> Len(p.callIdToLogsMap), oneToOne |-> Len(p.oneToOneCallMap),
     group |-> Len(p.groupCallMap), unknown |-> Len(p.unknownCallMap)]

\* this.callTypeMap.get(callId), Null for undefined
getCallType(p, c) == IF c \in DOMAIN p.callTypeMap THEN p.callTypeMap[c] ELSE Null

\* exportData of exportToJson
exportData(p) ==
    [statistics |-> getCallTypeStatistics(p),
     allCalls |-> [i \in 1..Len(p.callIdToLogsMap) |->
        LET e == p.callIdToLogsMap[i]
        IN  [callId |-> e.callId,
             type |-> IF getCallType(p, e.callId) = Null THEN "unknown"
                      ELSE getCallType(p, e.callId),
             logsCount |-> Len(e.logs),
             logs |-> [j \in 1..Len(e.logs) |->
                         [callId |-> e.logs[j].callId, from |-> e.logs[j].from,
                          to |-> e.logs[j].to, action |-> e.logs[j].action,
                          ts |-> e.logs[j].ts]]]]]

\* ----------------------------------------------------------- rendering
\* offset of the local time zone from UTC, in ms (Date's getters are local)
LocalOffsetMs == 0

\* year, month and day of a day number counted from 1970-01-01
CivilFromDays(days) ==
    LET z == days + 719468
        era == z \div 146097
        doe == z - era * 146097
        yoe == (doe - doe \div 1460 + doe \div 36524 - doe \div 146096) \div 365
        doy == doe - (365 * yoe + yoe \div 4 - yoe \div 100)
        mp == (5 * doy + 2) \div 153
        d == doy - (153 * mp + 2) \div 5 + 1
        m == IF mp < 10 THEN mp + 3 ELSE mp - 9
        y == yoe + era * 400 + (IF m <= 2 THEN 1 ELSE 0)
    IN  <<y, m, d>>

\* formatTimestamp(ts): the fields of `YYYY-MM-DD/HH:MM:SS.mmm`, in that order
formatTimestamp(ts) ==
    LET local == ts + LocalOffsetMs
        date == CivilFromDays(local \div 86400000)
    IN  <<date[1], date[2], date[3],
          (local \div 3600000) % 24, (local \div 60000) % 60,
          (local \div 1000) % 60, local % 1000>>

\* JavaScript truthiness of an optional number: undefined and 0 are falsy
Truthy(n) == n # NoNum /\ n # 0

\* the key of the earlier revision of the renderer: `a.ts - b.ts`
sortKeyTsOnly(log) == log.ts

\* `log.msgTimestamp || log.ts`
sortKey(log) == IF Truthy(log.msgTimestamp) THEN log.msgTimestamp ELSE log.ts

\* place of logs[i] after [...logs].sort((a, b) => t1 - t2): Array.prototype.sort
\* is stable, so equal keys keep their order
Rank(logs, i) ==
    Cardinality({ j \in 1..Len(logs) :
                    \/ sortKey(logs[j]) < sortKey(logs[i])
                    \/ (sortKey(logs[j]) = sortKey(logs[i]) /\ j <= i) })

\* sortedLogs, as the indices into logs of the objects it holds, in its order
sortedLogs(logs) ==
    [p \in 1..Len(logs) |-> CHOOSE i \in 1..Len(logs) : Rank(logs, i) = p]

\* the values a Set yields when the strings of seq are added in order
RECURSIVE SetOrder(_, _, _)
SetOrder(seq, i, acc) ==
    IF i > Len(seq) THEN acc
    ELSE SetOrder(seq, i + 1,
                  IF seq[i] \in { acc[k] : k \in 1..Len(acc) } THEN acc
                  ELSE Append(acc, seq[i]))

\* faulty variant of generateMermaidForCall: the `sortedLogs.length === 0`
\* return is left out, so an empty list yields the bare header
generateMermaidForCallNoCheck(logs) ==
    LET order == sortedLogs(logs)
        n == Len(logs)
    IN  [kind |-> "diagram",
         sortedLogs |-> order,
         participants |->
            SetOrder([k \in 1..(2 * n) |->
                        IF k % 2 = 1 THEN logs[order[(k + 1) \div 2]].from
                        ELSE logs[order[k \div 2]].to], 1, <<>>),
         interactions |->
            [p \in 1..n |->
               LET log == logs[order[p]]
               IN  [from |-> log.from, to |-> log.to, action |-> log.action,
                    timeDesc |-> IF Truthy(log.msgTimestamp)
                                 THEN "messageTime" ELSE "inSignalTime",
                    time |-> formatTimestamp(sortKey(log))]]]

\* generateMermaidForCall(logs)
generateMermaidForCall(logs) ==
    LET order == sortedLogs(logs)
        n == Len(logs)
    IN  IF n = 0
        THEN [kind |-> "noData", sortedLogs |-> <<>>, participants |-> <<>>,
              interactions |-> <<>>]
        ELSE [kind |-> "diagram",
              sortedLogs |-> order,
              participants |->
                 SetOrder([k \in 1..(2 * n) |->
                             IF k % 2 = 1 THEN logs[order[(k + 1) \div 2]].from
                             ELSE logs[order[k \div 2]].to], 1, <<>>),
              interactions |->
                 [p \in 1..n |->
                    LET log == logs[order[p]]
                    IN  [from |-> log.from, to |-> log.to, action |-> log.action,
                         timeDesc |-> IF Truthy(log.msgTimestamp)
                                      THEN "messageTime" ELSE "inSignalTime",
                         time |-> formatTimestamp(sortKey(log))]]]

\* `this.parser.getCallType(callId) || 'unknown'`
CallTypeOrUnknown(p, c) == IF getCallType(p, c) = Null THEN "unknown" ELSE getCallType(p, c)

\* the section generateHtml writes for one session
htmlSection(p, e) ==
    LET order == sortedLogs(e.logs)
    IN  [callId |-> e.callId,
         callType |-> CallTypeOrUnknown(p, e.callId),
         logsCount |-> Len(e.logs),
         diagram |-> generateMermaidForCall(e.logs),
         sortedLogs |-> order,
         items |-> [k \in 1..Len(e.logs) |->
                      LET log == e.logs[order[k]]
                      IN  [action |-> log.action, from |-> log.from, to |-> log.to,
                           timeDesc |-> IF Truthy(log.msgTimestamp)
                                        THEN "messageTime" ELSE "inSignalTime",
                           time |-> IF Truthy(log.msgTimestamp)
                                    THEN formatTimestamp(log.msgTimestamp)
                                    ELSE formatTimestamp(log.ts),
                           rawLog |-> log.rawLog]]]

\* generateHtml(): the statistics cards, the call index and the sections
generateHtml(p) ==
    [kind |-> "html",
     statistics |-> getCallTypeStatistics(p),
     index |-> [i \in 1..Len(p.callIdToLogsMap) |->
                  [callId |-> p.callIdToLogsMap[i].callId,
                   callType |-> CallTypeOrUnknown(p, p.callIdToLogsMap[i].callId)]],
     sections |-> [i \in 1..Len(p.callIdToLogsMap) |-> htmlSection(p, p.callIdToLogsMap[i])]]

\* generateMermaid(): for every session its callId comment and its diagram
generateMermaid(p) ==
    [kind |-> "mermaid",
     calls |-> [i \in 1..Len(p.callIdToLogsMap) |->
                  [callId |-> p.callIdToLogsMap[i].callId,
                   diagram |-> generateMermaidForCall(p.callIdToLogsMap[i].logs)]]]

\* nothing rendered yet
NoOutput == [kind |-> "none"]

\* faulty variant of AfterSortOfCopy: `logs.sort(...)`, which sorts the
\* session's own array
AfterSortInPlace(logs) == [k \in 1..Len(logs) |-> logs[sortedLogs(logs)[k]]]

\* the session's array after `[...logs].sort(...)`: the spread copied it, so
\* it is as it was
AfterSortOfCopy(logs) == logs

\* the parser after the renderer has gone through the sessions numbered in on
AfterRender(p, on) ==
    [p EXCEPT !.callIdToLogsMap =
        [i \in 1..Len(@) |->
            IF i \in on THEN [@[i] EXCEPT !.logs = AfterSortOfCopy(@)] ELSE @[i]]]

\* ---------------------------------------------------------- writeToFile
\* the formats writeToFile is called with, and the paths (Null: none given)
Formats == {"html", "mermaid", "pdf", "HTML"}
OutputPaths == {Null, "report.out"}

\* faulty variant of writeToFile: an unrecognized format is written as HTML
writeToFileDefaultsToHtml(p, format, outputPath) ==
    IF format = "mermaid"
    THEN [kind |-> "pending", format |-> format, content |-> generateMermaid(p),
          path |-> IF outputPath # Null THEN outputPath ELSE "callkit_signals.mmd"]
    ELSE [kind |-> "pending", format |-> format, content |-> generateHtml(p),
          path |-> IF outputPath # Null THEN outputPath ELSE "callkit_signals.html"]

\* writeToFile(format, outputPath) up to its await: the content and the path
\* it gives to writeFile, or the error it throws
writeToFile(p, format, outputPath) ==
    IF format = "html"
    THEN [kind |-> "pending", format |-> format, content |-> generateHtml(p),
          path |-> IF outputPath # Null THEN outputPath ELSE "callkit_signals.html"]
    ELSE IF format = "mermaid"
    THEN [kind |-> "pending", format |-> format, content |-> generateMermaid(p),
          path |-> IF outputPath # Null THEN outputPath ELSE "callkit_signals.mmd"]
    ELSE [kind |-> "thrown", format |-> format,
          error |-> [name |-> "unsupportedFormat", format |-> format]]

\* ------------------------------------------------------------- actions
\* pc: "idle" after construction; "returned" / "dirReturned" when the last
\* call, a parseLogFile / a parseLogDirectory, resolved; "failed" when it
\* rejected; and while a call is pending:
\*   "file"     parseLogFile awaits readFile
\*   "readdir"  parseLogDirectory awaits readdir
\*   "dirfile"  parseLogDirectory awaits its parseLogFile, which awaits readFile
\*   "resume"   that parseLogFile has resolved, the loop has not yet gone on
NoCallPending == pc \in {"idle", "returned", "dirReturned", "failed"}

\* writeToFile was not called yet
NoWrite == [kind |-> "none"]
\* the two clients of the server
Requests == {1, 2}
\* a request that was not sent yet
NotSent == [stage |-> "none"]

\* processSingleFile was not called yet
NoPrep == [stage |-> "none"]

\* nothing rendered, nothing written, no request sent, no scanning run
BesideParserInit ==
    /\ input = <<>>
    /\ diagram = NoOutput
    /\ report = NoOutput
    /\ writeCall = NoWrite
    /\ outFiles = <<>>
    /\ requests = [r \in Requests |-> NotSent]
    /\ tempDir = <<>>
    /\ calls = <<>>
    /\ prep = NoPrep
    /\ disk = <<>>

\* no parse call was made yet
NoCallInit ==
    /\ dirLeft = 0
    /\ ret = NoNum
    /\ countSum = 0

Init ==
    /\ rtcCallLogs = NewParser.rtcCallLogs
    /\ callIdToLogsMap = NewParser.callIdToLogsMap
    /\ oneToOneCallMap = NewParser.oneToOneCallMap
    /\ groupCallMap = NewParser.groupCallMap
    /\ unknownCallMap = NewParser.unknownCallMap
    /\ callTypeMap = NewParser.callTypeMap
    /\ pc = "idle"
    /\ NoCallInit
    /\ BesideParserInit

AcceptedLines == { l \in ParserLines : Accepted(l) }
\* the files of n lines that add at most k events
RECURSIVE FilesOfLen(_, _)
FilesOfLen(n, k) ==
    IF n = 0 THEN { <<>> }
    ELSE { Append(f, l) : f \in FilesOfLen(n - 1, k), l \in ParserLines \ AcceptedLines }
         \cup (IF k = 0 THEN {}
               ELSE { Append(f, l) : f \in FilesOfLen(n - 1, k - 1), l \in AcceptedLines })
\* the files of at most MaxFileLen lines that add at most k events
FilesAdding == [k \in 0..MaxEvents |-> UNION { FilesOfLen(n, k) : n \in 0..MaxFileLen }]
\* the inputs that keep the store within the model's bound
FittingFiles == FilesAdding[MaxEvents - Len(rtcCallLogs)]

\* parseLogFile on content, from `const lines = ...` to `return count`
ParseLogFileBody(content) ==
    /\ SetParser(ParseContent(Parser, content))
    /\ ret' = CountAccepted(content, 1)
    /\ countSum' = countSum + CountAccepted(content, 1)

\* parseLogFile(path) is called: it awaits readFile
ParseLogFileCall ==
    /\ NoCallPending
    /\ pc' = "file"
    /\ ret' = NoNum
    /\ ParserUnchanged
    /\ UNCHANGED <<dirLeft, countSum, besideParser>>

\* readFile resolved: the lines are scanned, the partitions rebuilt, count returned
ParseLogFileRead ==
    /\ pc = "file"
    /\ \E content \in FittingFiles : ParseLogFileBody(content)
    /\ pc' = "returned"
    /\ UNCHANGED <<dirLeft, besideParser>>

\* faulty variant of ParseLogFileFail: the catch block resets the parser
\* before it rethrows
ParseLogFileFailClears ==
    /\ pc = "file"
    /\ pc' = "failed"
    /\ SetParser(NewParser)
    /\ UNCHANGED <<dirLeft, ret, countSum, besideParser>>

\* readFile rejected: the catch block logs and rethrows
ParseLogFileFail ==
    /\ pc = "file"
    /\ pc' = "failed"
    /\ ParserUnchanged
    /\ UNCHANGED <<dirLeft, ret, countSum, besideParser>>

\* parseLogDirectory(dir) is called: it awaits readdir
ParseLogDirectoryCall ==
    /\ NoCallPending
    /\ pc' = "readdir"
    /\ ret' = NoNum
    /\ ParserUnchanged
    /\ UNCHANGED <<dirLeft, countSum, besideParser>>

\* readdir rejected: the catch block logs and rethrows
ParseLogDirectoryListFail ==
    /\ pc = "readdir"
    /\ pc' = "failed"
    /\ ParserUnchanged
    /\ UNCHANGED <<dirLeft, ret, countSum, besideParser>>

\* readdir resolved with n eligible files (the others are skipped in the same
\* turn): with none the loop ends and the partitions are rebuilt at once;
\* otherwise parseLogFile is called on the first one and awaits readFile
ParseLogDirectoryListed ==
    /\ pc = "readdir"
    /\ \E n \in 0..MaxDirFiles :
          /\ dirLeft' = n
          /\ IF n = 0
             THEN /\ SetParser(reclassifyAllCalls(Parser))
                  /\ pc' = "dirReturned"
             ELSE /\ ParserUnchanged
                  /\ pc' = "dirfile"
    /\ UNCHANGED <<ret, countSum, besideParser>>

\* fs.statSync throws on an entry of the listing: the catch block rethrows
ParseLogDirectoryStatFail ==
    /\ pc \in {"readdir", "resume"}
    /\ pc' = "failed"
    /\ dirLeft' = 0
    /\ ret' = NoNum
    /\ ParserUnchanged
    /\ UNCHANGED <<countSum, besideParser>>

\* the inner parseLogFile finished reading: it scans, rebuilds and resolves
ParseLogDirectoryFileRead ==
    /\ pc = "dirfile"
    /\ \E content \in FittingFiles : ParseLogFileBody(content)
    /\ pc' = "resume"
    /\ UNCHANGED <<dirLeft, besideParser>>

\* the inner parseLogFile rejected: parseLogDirectory rethrows
ParseLogDirectoryFileFail ==
    /\ pc = "dirfile"
    /\ pc' = "failed"
    /\ dirLeft' = 0
    /\ ret' = NoNum
    /\ ParserUnchanged
    /\ UNCHANGED <<countSum, besideParser>>

\* the loop goes on after `const count = await this.parseLogFile(filePath)`:
\* count is added to the loop's total, and parseLogFile is called on a next file
ParseLogDirectoryNextFile ==
    /\ pc = "resume"
    /\ dirLeft > 1
    /\ dirLeft' = dirLeft - 1
    /\ ret' = NoNum
    /\ pc' = "dirfile"
    /\ ParserUnchanged
    /\ UNCHANGED <<countSum, besideParser>>

\* the loop ends after the last file: count is added to the total, the
\* partitions are rebuilt once more and the total is returned
ParseLogDirectoryFinish ==
    /\ pc = "resume"
    /\ dirLeft = 1
    /\ dirLeft' = 0
    /\ ret' = NoNum
    /\ SetParser(reclassifyAllCalls(Parser))
    /\ pc' = "dirReturned"
    /\ UNCHANGED <<countSum, besideParser>>

\* faulty variant of clearRtcCallLogs: callTypeMap is not cleared
ClearKeepsCategories ==
    /\ SetParser([NewParser EXCEPT !.callTypeMap = callTypeMap])
    /\ countSum' = 0
    /\ UNCHANGED <<pc, dirLeft, ret, besideParser>>

\* faulty variant of clearRtcCallLogs: unknownCallMap is not cleared
ClearKeepsUnknown ==
    /\ SetParser([NewParser EXCEPT !.unknownCallMap = unknownCallMap])
    /\ countSum' = 0
    /\ UNCHANGED <<pc, dirLeft, ret, besideParser>>

\* clearRtcCallLogs(): synchronous, callable while a parse is pending
clearRtcCallLogs ==
    /\ SetParser(NewParser)
    /\ countSum' = 0
    /\ UNCHANGED <<pc, dirLeft, ret, besideParser>>

Next ==
    \/ ParseLogFileCall
    \/ ParseLogFileRead
    \/ ParseLogFileFail
    \/ ParseLogDirectoryCall
    \/ ParseLogDirectoryListFail
    \/ ParseLogDirectoryListed
    \/ ParseLogDirectoryStatFail
    \/ ParseLogDirectoryFileRead
    \/ ParseLogDirectoryFileFail
    \/ ParseLogDirectoryNextFile
    \/ ParseLogDirectoryFinish
    \/ clearRtcCallLogs

Spec == Init /\ [][Next]_vars

\* =================================================== properties: parser
\* the keys of the store and of the three partitions
SessionSet == KeySet(SessionKeys(callIdToLogsMap))
OneToOneSet == KeySet(oneToOneCallMap)
GroupSet == KeySet(groupCallMap)
UnknownSet == KeySet(unknownCallMap)

\* the partition a callId is filed under, Null when under none
PartitionOf(c) ==
    IF c \in OneToOneSet THEN "oneToOne"
    ELSE IF c \in GroupSet THEN "group"
    ELSE IF c \in UnknownSet THEN "unknown" ELSE Null

\* an invite line the classification reads a type from
IsTypedInvite(l) == l.invite = "exact" /\ l.text /\ l.nestedType # NoNum
\* the first event of logs whose line is such a line, 0 when there is none
FirstTypedInvite(logs) ==
    LET typed == { i \in 1..Len(logs) : IsTypedInvite(logs[i].rawLog) }
    IN  IF typed = {} THEN 0 ELSE CHOOSE i \in typed : \A j \in typed : i <= j
\* the first event of logs whose line holds both markers, 0 when there is none
FirstInvite(logs) ==
    LET inv == { i \in 1..Len(logs) : logs[i].rawLog.invite = "exact" /\ logs[i].rawLog.text }
    IN  IF inv = {} THEN 0 ELSE CHOOSE i \in inv : \A j \in inv : i <= j
\* the rule of the specification on a nested type value
CategoryOfType(v) == IF v <= 1 THEN "oneToOne" ELSE "group"
\* the rule applied to a whole event list
RuleOn(logs) ==
    IF FirstTypedInvite(logs) = 0 THEN "unknown"
    ELSE CategoryOfType(logs[FirstTypedInvite(logs)].rawLog.nestedType)

\* C1: in every state a caller can see, every callId of the session store is a
\* key of exactly one of oneToOne, group, unknown, and no partition holds a
\* callId that is not in the store.
C1_PartitionsCoverSessions ==
    /\ OneToOneSet \cup GroupSet \cup UnknownSet = SessionSet
    /\ OneToOneSet \cap GroupSet = {}
    /\ OneToOneSet \cap UnknownSet = {}
    /\ GroupSet \cap UnknownSet = {}
    /\ Len(oneToOneCallMap) + Len(groupCallMap) + Len(unknownCallMap)
         = Len(callIdToLogsMap)

\* a parse has returned with sessions filed under two different partitions
C1_Witness ==
    /\ pc \in {"returned", "dirReturned"}
    /\ Len(callIdToLogsMap) = 2
    /\ Len(unknownCallMap) = 1
    /\ Len(groupCallMap) = 1

\* C2 as stated: after every rebuild each session's partition is the rule
\* applied to the session's complete current event list.
C2_PartitionMatchesCurrentEvents ==
    \A i \in 1..Len(callIdToLogsMap) :
        PartitionOf(callIdToLogsMap[i].callId) = RuleOn(callIdToLogsMap[i].logs)

\* each session is filed under the category recorded for it
PartitionIsCategory ==
    \A i \in 1..Len(callIdToLogsMap) :
        LET c == callIdToLogsMap[i].callId
        IN  c \in DOMAIN callTypeMap /\ PartitionOf(c) = callTypeMap[c]

\* a category is recorded from the events the session holds at that rebuild
RecordedFromEventsThen ==
    \A c \in (DOMAIN callTypeMap') \ (DOMAIN callTypeMap) :
        callTypeMap'[c] = RuleOn(LogsOf(callIdToLogsMap', c))

\* C2 amended: after every rebuild each session's partition is the category
\* recorded for it, and that category is the rule applied to the events the
\* session held at the first rebuild after it was created.
C2_PartitionMatchesRecordedCategory ==
    [] PartitionIsCategory /\ [][RecordedFromEventsThen]_vars

\* a session filed as unknown by an earlier parse now holds a one-to-one invite
C2_Witness ==
    /\ pc \in {"returned", "dirReturned"}
    /\ "a" \in UnknownSet
    /\ RuleOn(LogsOf(callIdToLogsMap, "a")) = "oneToOne"

\* C3: once getCallType(callId) has returned a category it returns the same
\* one after every later step, whatever is appended, until clearRtcCallLogs.
C3_CategoryKept ==
    [][ \A c \in CallIds :
          getCallType(Parser, c) # Null =>
             \/ getCallType(Parser', c) = getCallType(Parser, c)
             \/ (rtcCallLogs' = <<>> /\ callIdToLogsMap' = <<>> /\ getCallType(Parser', c) = Null)
      ]_vars

\* a session recorded as unknown got a group invite appended and is still unknown
C3_Witness ==
    /\ HasSession(callIdToLogsMap, "a")
    /\ getCallType(Parser, "a") = "unknown"
    /\ LET logs == LogsOf(callIdToLogsMap, "a")
       IN  Len(logs) >= 2 /\ logs[Len(logs)].rawLog = InviteLine("a", MaxType)

\* C4: in every state a caller can see, the statistics satisfy
\* total = oneToOne + group + unknown, and total is the number of sessions.
C4_StatisticsAddUp ==
    LET st == getCallTypeStatistics(Parser)
    IN  /\ st.total = st.oneToOne + st.group + st.unknown
        /\ st.total = Cardinality(SessionSet)

\* a directory parse has failed after sessions of two categories were stored
C4_Witness ==
    /\ pc = "failed"
    /\ getCallTypeStatistics(Parser).total = 2
    /\ getCallTypeStatistics(Parser).oneToOne = 1
    /\ getCallTypeStatistics(Parser).unknown = 1

\* sum of logsCount over the sessions of an exported snapshot
RECURSIVE SumLogsCount(_, _)
SumLogsCount(allCalls, i) ==
    IF i > Len(allCalls) THEN 0 ELSE allCalls[i].logsCount + SumLogsCount(allCalls, i + 1)

\* C5 as stated: the sum of logsCount over the sessions of the exported
\* snapshot equals statistics.total of the same snapshot.
C5_LogsCountSumIsTotal ==
    SumLogsCount(exportData(Parser).allCalls, 1) = exportData(Parser).statistics.total

\* C5 amended: the exported snapshot has statistics.total sessions, and the sum
\* of their logsCount is the number of accepted events (the length of
\* getRtcCallLogs), which is at least statistics.total.
C5_SessionsAreTotalAndLogsCountSumIsEvents ==
    LET x == exportData(Parser)
    IN  /\ Len(x.allCalls) = x.statistics.total
        /\ SumLogsCount(x.allCalls, 1) = Len(rtcCallLogs)
        /\ SumLogsCount(x.allCalls, 1) >= x.statistics.total

\* a snapshot with a session of two events: more events than sessions
C5_Witness ==
    /\ exportData(Parser).statistics.total = 2
    /\ SumLogsCount(exportData(Parser).allCalls, 1) = 3

\* C6: a rebuild run again with no event added in between leaves the three
\* partitions and every category as they were; the rebuild that ends
\* parseLogDirectory changes nothing the last parseLogFile left.
C6_RebuildIdempotent ==
    /\ [] (reclassifyAllCalls(Parser) = Parser)
    /\ [][ (pc \in {"resume", "readdir"} /\ pc' = "dirReturned") =>
              UNCHANGED <<rtcCallLogs, callIdToLogsMap, oneToOneCallMap,
                          groupCallMap, unknownCallMap, callTypeMap>> ]_vars

\* parseLogDirectory has returned with sessions of two categories
C6_Witness ==
    /\ pc = "dirReturned"
    /\ Len(oneToOneCallMap) = 1
    /\ Len(groupCallMap) = 1

\* C9: the invite line that determines a session's category gives oneToOne
\* when its nested type is <= 1 and group when it is > 1, and a session is
\* never given a category outside oneToOne, group, unknown.
C9_TypeDecidesCategory ==
    \A i \in 1..Len(callIdToLogsMap) :
        LET c == callIdToLogsMap[i].callId
            logs == callIdToLogsMap[i].logs
            k == FirstTypedInvite(logs)
        IN  /\ getCallType(Parser, c) \in Categories
            /\ getCallType(Parser, c) # "unknown" =>
                  /\ k # 0
                  /\ (logs[k].rawLog.nestedType <= 1 => getCallType(Parser, c) = "oneToOne")
                  /\ (logs[k].rawLog.nestedType > 1 => getCallType(Parser, c) = "group")

\* sessions decided by the type values 1 and MaxType
C9_Witness ==
    /\ HasSession(callIdToLogsMap, "a") /\ HasSession(callIdToLogsMap, "b")
    /\ LogsOf(callIdToLogsMap, "a")[1].rawLog = InviteLine("a", 1)
    /\ getCallType(Parser, "a") = "oneToOne"
    /\ LogsOf(callIdToLogsMap, "b")[1].rawLog = InviteLine("b", MaxType)
    /\ getCallType(Parser, "b") = "group"

C11_NoInviteLineIsUnknown ==
    \A i \in 1..Len(callIdToLogsMap) :
        LET c == callIdToLogsMap[i].callId
        IN  /\ getCallType(Parser, c) \in Categories
            /\ FirstInvite(callIdToLogsMap[i].logs) = 0 =>
                  /\ getCallType(Parser, c) = "unknown"
                  /\ c \in UnknownSet
                  /\ c \notin OneToOneSet \cup GroupSet

\* a session of a loosely written invite line and a command line, filed as
\* unknown, next to a session that an invite line made a group call
C11_Witness ==
    /\ pc \in {"returned", "dirReturned"}
    /\ HasSession(callIdToLogsMap, "a") /\ HasSession(callIdToLogsMap, "b")
    /\ LET logs == LogsOf(callIdToLogsMap, "a")
       IN  /\ Len(logs) = 2
           /\ logs[1].rawLog = LooseInviteLine("a")
           /\ logs[2].rawLog = CommandLine("a", 1, NoNum)
    /\ "a" \in UnknownSet
    /\ "b" \in GroupSet

\* number of events held by the sessions i.. of the store
RECURSIVE SumEvents(_, _)
SumEvents(m, i) == IF i > Len(m) THEN 0 ELSE Len(m[i].logs) + SumEvents(m, i + 1)

\* C12: every accepted event is stored once per acceptance, in the session
\* whose key is its callId and in no other; the sessions' event counts add up
\* to the length of getRtcCallLogs, which is the sum of the counts returned by
\* the parseLogFile calls since the last clear.
C12_EventsStoredOnceCountsAgree ==
    /\ \A i, j \in 1..Len(callIdToLogsMap) :
          callIdToLogsMap[i].callId = callIdToLogsMap[j].callId => i = j
    /\ \A i \in 1..Len(callIdToLogsMap) : \A k \in 1..Len(callIdToLogsMap[i].logs) :
          callIdToLogsMap[i].logs[k].callId = callIdToLogsMap[i].callId
    /\ \A c \in CallIds :
          Cardinality({ k \in 1..Len(rtcCallLogs) : rtcCallLogs[k].callId = c })
             = IF HasSession(callIdToLogsMap, c) THEN Len(LogsOf(callIdToLogsMap, c)) ELSE 0
    /\ SumEvents(callIdToLogsMap, 1) = Len(rtcCallLogs)
    /\ Len(rtcCallLogs) = countSum

\* three events of two sessions, stored by more than one parseLogFile call, the
\* last of which read a line it could not extract and returned 1
C12_Witness ==
    /\ pc = "returned"
    /\ ret = 1
    /\ countSum = MaxEvents
    /\ Len(callIdToLogsMap) = 2
    /\ Len(callIdToLogsMap[1].logs) = 2

\* s is an initial part of t
IsPrefix(s, t) == Len(s) <= Len(t) /\ \A i \in 1..Len(s) : s[i] = t[i]

\* sessions in the order their callIds first appear among the scanned events,
\* each session's events in the order they were scanned
InScanOrder ==
    /\ SessionKeys(callIdToLogsMap)
          = SetOrder([k \in 1..Len(rtcCallLogs) |-> rtcCallLogs[k].callId], 1, <<>>)
    /\ \A i \in 1..Len(callIdToLogsMap) :
          callIdToLogsMap[i].logs
             = SelectSeq(rtcCallLogs, LAMBDA e : e.callId = callIdToLogsMap[i].callId)

\* a step either empties the store or keeps every session in its place and
\* every event in its place, adding only at the ends
AppendsOnly ==
    \/ rtcCallLogs' = <<>> /\ callIdToLogsMap' = <<>>
    \/ /\ IsPrefix(rtcCallLogs, rtcCallLogs')
       /\ Len(callIdToLogsMap) <= Len(callIdToLogsMap')
       /\ \A i \in 1..Len(callIdToLogsMap) :
             /\ callIdToLogsMap'[i].callId = callIdToLogsMap[i].callId
             /\ IsPrefix(callIdToLogsMap[i].logs, callIdToLogsMap'[i].logs)

\* C13: sessions iterate in the order their callIds were first seen and the
\* events of a session are in the order their lines were scanned; a later
\* parse on the same parser only appends, it never reorders or removes.
C13_ScanOrderKept ==
    [] InScanOrder /\ [][AppendsOnly]_vars

\* a second parse has appended an event to the first of two sessions
C13_Witness ==
    /\ pc = "returned"
    /\ ret = 1
    /\ Len(rtcCallLogs) = 3
    /\ rtcCallLogs[1].callId = "a" /\ rtcCallLogs[2].callId = "b"
    /\ rtcCallLogs[3].callId = "a"
    /\ rtcCallLogs[3].rawLog # rtcCallLogs[1].rawLog
    /\ SessionKeys(callIdToLogsMap) = <<"a", "b">>

\* C27: after any sequence of parseLogFile and parseLogDirectory calls (and
\* clears) every session of the store holds at least one event, so the
\* diagram a report makes of a stored session is never the no-data
\* placeholder.
C27_NoSessionWithoutEvents ==
    \A i \in 1..Len(callIdToLogsMap) :
       /\ Len(callIdToLogsMap[i].logs) >= 1
       /\ generateMermaidForCall(callIdToLogsMap[i].logs).kind # "noData"

\* a directory was parsed and left two sessions, the second created by the
\* last event that fitted and holding nothing else
C27_Witness ==
    /\ pc = "dirReturned"
    /\ Len(callIdToLogsMap) = 2
    /\ Len(callIdToLogsMap[2].logs) = 1
    /\ Len(rtcCallLogs) = MaxEvents
    /\ rtcCallLogs[MaxEvents].callId = callIdToLogsMap[2].callId

\* what a caller can read of the parser: sessions, categories, partitions
\* and statistics
Readable(p) ==
    <<p.callIdToLogsMap, p.callTypeMap, p.oneToOneCallMap, p.groupCallMap,
      p.unknownCallMap, getCallTypeStatistics(p)>>

\* C23: a parseLogFile call whose readFile rejects changes nothing a caller
\* can read, neither when it is called nor when it rejects; a
\* parseLogDirectory call that rejects (readdir, statSync or one of its
\* files failing) keeps what the files before have stored, and the state it
\* leaves satisfies the partition invariant.
C23_FailedParseLeavesState ==
    /\ [](pc = "failed" => C1_PartitionsCoverSessions)
    /\ [][ (pc # "file" /\ pc' = "file") => Readable(Parser)' = Readable(Parser) ]_vars
    /\ [][ (pc = "file" /\ pc' = "failed") => Readable(Parser)' = Readable(Parser) ]_vars
    /\ [][ (pc \in {"readdir", "dirfile", "resume"} /\ pc' = "failed")
             => /\ Readable(Parser)' = Readable(Parser)
                /\ rtcCallLogs' = rtcCallLogs ]_vars

\* a call has rejected on a parser that holds as many events as fit, one of
\* its sessions a group call
C23_Witness ==
    /\ pc = "failed"
    /\ Len(rtcCallLogs) = MaxEvents
    /\ Len(groupCallMap) = 1
    /\ Len(callIdToLogsMap) = 2

\* ------------------------------------------------ the renderer's runs
\* the lines of the renderer's inputs: command lines of one call with every
\* in-signal timestamp and every outer message timestamp, absent and 0 included
RenderLines ==
    { CommandLine("a", ts, msg) : ts \in 1..MaxTs, msg \in {NoNum} \cup (0..MaxTs) }

RenderFiles == SeqUpTo(RenderLines, MaxLogs)

\* a parser that has parsed one file, handed to new Visualizer(parser)
RenderInit ==
    /\ \E content \in RenderFiles :
          LET parsed == ParseContent(NewParser, content)
          IN  /\ rtcCallLogs = parsed.rtcCallLogs
              /\ callIdToLogsMap = parsed.callIdToLogsMap
              /\ oneToOneCallMap = parsed.oneToOneCallMap
              /\ groupCallMap = parsed.groupCallMap
              /\ unknownCallMap = parsed.unknownCallMap
              /\ callTypeMap = parsed.callTypeMap
              /\ ret = CountAccepted(content, 1)
              /\ countSum = CountAccepted(content, 1)
    /\ pc = "returned"
    /\ dirLeft = 0
    /\ BesideParserInit

\* visualizer.generateMermaidForCall(logs) on the events of a session, or on
\* an empty list
GenerateMermaidForCall ==
    /\ \/ \E i \in 1..Len(callIdToLogsMap) :
             /\ diagram' = generateMermaidForCall(callIdToLogsMap[i].logs)
             /\ SetParser(AfterRender(Parser, {i}))
       \/ /\ diagram' = generateMermaidForCall(<<>>)
          /\ ParserUnchanged
    /\ UNCHANGED <<pc, dirLeft, ret, countSum, input, calls, prep, disk,
                   report,
                   writeCall, outFiles, requests, tempDir>>

\* visualizer.generateHtml()
GenerateHtml ==
    /\ report' = generateHtml(Parser)
    /\ SetParser(AfterRender(Parser, 1..Len(callIdToLogsMap)))
    /\ UNCHANGED <<pc, dirLeft, ret, countSum, input, calls, prep, disk,
                   diagram,
                   writeCall, outFiles, requests, tempDir>>

\* visualizer.generateMermaid()
GenerateMermaid ==
    /\ report' = generateMermaid(Parser)
    /\ SetParser(AfterRender(Parser, 1..Len(callIdToLogsMap)))
    /\ UNCHANGED <<pc, dirLeft, ret, countSum, input, calls, prep, disk,
                   diagram,
                   writeCall, outFiles, requests, tempDir>>

RenderNext ==
    \/ GenerateMermaidForCall
    \/ GenerateHtml
    \/ GenerateMermaid

RenderSpec == RenderInit /\ [][RenderNext]_vars

\* ================================================= properties: renderer
\* effective time of an event: its outer message timestamp when present,
\* else its in-signal timestamp
EffectiveTime(log) == IF log.msgTimestamp # NoNum THEN log.msgTimestamp ELSE log.ts

\* order lists the events of logs by non-decreasing effective time, events of
\* equal effective time in storage order
InEffectiveTimeOrder(logs, order) ==
    \A p, q \in 1..Len(order) :
        p < q =>
           \/ EffectiveTime(logs[order[p]]) < EffectiveTime(logs[order[q]])
           \/ /\ EffectiveTime(logs[order[p]]) = EffectiveTime(logs[order[q]])
              /\ order[p] < order[q]

\* C7: for every session the interactions of generateMermaidForCall and the
\* log-detail entries of generateHtml are in non-decreasing effective-time
\* order, ties in storage order, hence both in the same order.
C7_RenderedInEffectiveTimeOrder ==
    report.kind = "html" =>
       \A i \in 1..Len(report.sections) :
           LET logs == callIdToLogsMap[i].logs
               sec == report.sections[i]
           IN  /\ InEffectiveTimeOrder(logs, sec.sortedLogs)
               /\ InEffectiveTimeOrder(logs, sec.diagram.sortedLogs)
               /\ sec.sortedLogs = sec.diagram.sortedLogs

\* C8: the key that orders an event and the time displayed for it is its
\* messageTimestamp whenever present, 0 included, and its in-signal timestamp
\* only when messageTimestamp is absent.
C8_MessageTimestampWheneverPresent ==
    report.kind = "html" =>
       \A i \in 1..Len(report.sections) :
           LET logs == callIdToLogsMap[i].logs
               sec == report.sections[i]
           IN  \A k \in 1..Len(logs) :
                  LET log == logs[sec.sortedLogs[k]]
                  IN  /\ sortKey(log) = EffectiveTime(log)
                      /\ sec.items[k].time = formatTimestamp(EffectiveTime(log))
                      /\ sec.diagram.interactions[k].time = formatTimestamp(EffectiveTime(log))
                      /\ (sec.items[k].timeDesc = "messageTime") = (log.msgTimestamp # NoNum)

\* C19: generateMermaidForCall, generateMermaid and generateHtml leave the
\* parser as it was: the same sessions with the same events in the same
\* order, the same flat event list, partitions and categories.
C19_RenderingLeavesParser ==
    [][Parser' = Parser]_vars

\* a session whose stored order is not its display order was rendered as a
\* single diagram and in a whole document, and is stored as it was parsed
C19_Witness ==
    /\ diagram.kind = "diagram"
    /\ report.kind \in {"html", "mermaid"}
    /\ Len(callIdToLogsMap) = 1
    /\ Len(callIdToLogsMap[1].logs) = 2
    /\ diagram.sortedLogs = <<2, 1>>
    /\ callIdToLogsMap[1].logs = rtcCallLogs
    /\ sortKey(rtcCallLogs[1]) > sortKey(rtcCallLogs[2])

\* the lines under the `sequenceDiagram` header of a diagram: the one note of
\* the placeholder, or the participant declarations and the interactions
BodyLines(d) ==
    IF d.kind = "noData" THEN 1 ELSE Len(d.participants) + Len(d.interactions)

\* d has exactly one interaction line per event of logs: line k is written
\* from one event, and no event is used twice
OneInteractionPerEvent(d, logs) ==
    /\ d.kind = "diagram"
    /\ Len(d.interactions) = Len(logs)
    /\ Len(d.sortedLogs) = Len(logs)
    /\ { d.sortedLogs[k] : k \in 1..Len(logs) } = 1..Len(logs)
    /\ \A k \in 1..Len(logs) :
          LET log == logs[d.sortedLogs[k]]
          IN  /\ d.interactions[k].from = log.from
              /\ d.interactions[k].to = log.to
              /\ d.interactions[k].action = log.action

\* C21: generateMermaidForCall on the empty list returns the no-data
\* placeholder, on a non-empty list a diagram with exactly one interaction
\* line per event; the body under the header is never empty. Checked on the
\* diagram last made, on every diagram of a rendered document, and on the
\* function at the empty list.
C21_PlaceholderOrOneLinePerEvent ==
    /\ generateMermaidForCall(<<>>).kind = "noData"
    /\ BodyLines(generateMermaidForCall(<<>>)) = 1
    /\ diagram.kind # "none" =>
          /\ BodyLines(diagram) >= 1
          /\ \/ diagram.kind = "noData" /\ diagram.interactions = <<>>
             \/ \E i \in 1..Len(callIdToLogsMap) :
                   /\ Len(callIdToLogsMap[i].logs) >= 1
                   /\ OneInteractionPerEvent(diagram, callIdToLogsMap[i].logs)
    /\ report.kind = "mermaid" =>
          \A i \in 1..Len(report.calls) :
             /\ OneInteractionPerEvent(report.calls[i].diagram, callIdToLogsMap[i].logs)
             /\ BodyLines(report.calls[i].diagram) >= 1
    /\ report.kind = "html" =>
          \A i \in 1..Len(report.sections) :
             /\ OneInteractionPerEvent(report.sections[i].diagram, callIdToLogsMap[i].logs)
             /\ BodyLines(report.sections[i].diagram) >= 1

\* the placeholder was returned for the empty list while the session parsed
\* has as many events as fit, each on its own line of the document's diagram
C21_Witness ==
    /\ diagram.kind = "noData"
    /\ report.kind = "mermaid"
    /\ Len(report.calls) = 1
    /\ Len(callIdToLogsMap[1].logs) = MaxLogs
    /\ Len(report.calls[1].diagram.interactions) = MaxLogs

\* ------------------------------------------------ the runs of writeToFile
\* the lines of the writer's inputs: an event of one call, a group invite of another
WriteLines == { CommandLine("a", 1, NoNum), InviteLine("b", MaxType) }

\* a parser that has parsed one file, handed to new Visualizer(parser)
WriteInit ==
    /\ \E content \in SeqUpTo(WriteLines, MaxLogs) :
          LET parsed == ParseContent(NewParser, content)
          IN  /\ rtcCallLogs = parsed.rtcCallLogs
              /\ callIdToLogsMap = parsed.callIdToLogsMap
              /\ oneToOneCallMap = parsed.oneToOneCallMap
              /\ groupCallMap = parsed.groupCallMap
              /\ unknownCallMap = parsed.unknownCallMap
              /\ callTypeMap = parsed.callTypeMap
              /\ ret = CountAccepted(content, 1)
              /\ countSum = CountAccepted(content, 1)
    /\ pc = "returned"
    /\ dirLeft = 0
    /\ BesideParserInit

\* visualizer.writeToFile(format, outputPath) is called: it throws, or builds
\* the content and awaits writeFile
WriteToFile ==
    /\ writeCall.kind # "pending"
    /\ \E format \in Formats, outputPath \in OutputPaths :
          LET call == writeToFile(Parser, format, outputPath)
          IN  /\ writeCall' = call
              /\ SetParser(AfterRender(Parser, IF call.kind = "pending"
                                               THEN 1..Len(callIdToLogsMap) ELSE {}))
    /\ UNCHANGED <<pc, dirLeft, ret, countSum, input, calls, prep, disk,
                   diagram, report,
                   outFiles, requests, tempDir>>

\* writeFile resolved: the file holds the content, the path is returned
WriteFileResolved ==
    /\ writeCall.kind = "pending"
    /\ outFiles' = MapPut(outFiles, writeCall.path, writeCall.content)
    /\ writeCall' = [kind |-> "returned", format |-> writeCall.format,
                     path |-> writeCall.path]
    /\ ParserUnchanged
    /\ UNCHANGED <<pc, dirLeft, ret, countSum, input, calls, prep, disk,
                   diagram, report,
                   requests, tempDir>>

\* writeFile rejected: writeToFile rejects with that error
WriteFileRejected ==
    /\ writeCall.kind = "pending"
    /\ writeCall' = [kind |-> "thrown", format |-> writeCall.format,
                     error |-> [name |-> "writeFailed", format |-> Null]]
    /\ ParserUnchanged
    /\ UNCHANGED <<pc, dirLeft, ret, countSum, input, calls, prep, disk,
                   diagram, report,
                   outFiles, requests, tempDir>>

WriteNext ==
    \/ WriteToFile
    \/ WriteFileResolved
    \/ WriteFileRejected

WriteSpec == WriteInit /\ [][WriteNext]_vars

\* =================================================== properties: writer
\* the two values of the format selector
SupportedFormats == {"html", "mermaid"}

\* C16: writeToFile called with a format other than 'html' and 'mermaid' throws
\* an error that names the value it was given, writes no file, and does not
\* go on with a default format.
C16_UnsupportedFormatThrows ==
    /\ [] ((writeCall.kind # "none" /\ writeCall.format \notin SupportedFormats) =>
             /\ writeCall.kind = "thrown"
             /\ writeCall.error = [name |-> "unsupportedFormat", format |-> writeCall.format])
    /\ [][ (writeCall' # writeCall /\ writeCall'.kind # "none"
              /\ writeCall'.format \notin SupportedFormats) => outFiles' = outFiles ]_vars

\* after both default files were written, a call with 'HTML' has thrown and
\* left them as they were
C16_Witness ==
    /\ writeCall.kind = "thrown"
    /\ writeCall.format = "HTML"
    /\ DOMAIN outFiles = {"callkit_signals.html", "callkit_signals.mmd"}
    /\ outFiles["callkit_signals.html"] = generateHtml(Parser)
    /\ Len(callIdToLogsMap) = 2

\* ------------------------------------------------ POST /api/visualize
\* the original names of the uploaded files, and path.extname(...).toLowerCase()
UploadNames == {"call.log", "call.gz", "call.bin"}
ExtOf(name) ==
    IF name = "call.log" THEN ".log" ELSE IF name = "call.gz" THEN ".gz" ELSE ".bin"

\* the bytes of a file: how they are encoded and the lines they encode
PlainBytes(lines) == [enc |-> "plain", lines |-> lines]
GzipBytes(lines) == [enc |-> "gzip", lines |-> lines]
\* a file just opened with flag 'w'
EmptyBytes == PlainBytes(<<>>)
Uploads ==
    { PlainBytes(<<CommandLine("a", 1, NoNum)>>), GzipBytes(<<InviteLine("b", MaxType)>>) }

\* req.body.format: absent, or a string
BodyFormats == {Null, "html", "mermaid", "pdf"}

\* Date.now() + '-' + file.originalname, under the one temp directory
TempPath(ms, name) == <<ms, name>>

\* fs.unlinkSync(path) on a directory kept as path -> file
Unlink(dir, path) == [x \in (DOMAIN dir) \ {path} |-> dir[x]]

\* parser.parse(logContent): the scan and the rebuild, on a text in memory
parse(p, logContent) == ParseContent(p, logContent)

\* fs.readFileSync(path, 'utf8'), as lines: compressed bytes hold no log line
ReadUtf8(bytes) == IF bytes.enc = "plain" THEN bytes.lines ELSE <<>>

JsonError(status, error) ==
    [status |-> status, type |-> "application/json",
     body |-> [kind |-> "error", error |-> error]]

\* what can throw in the handler beside a missing temp file and bytes that
\* are not gzip: readFileSync, parser.parse, generateHtml
Faults == {"none", "read", "parse", "render"}

\* faulty variant of Caught: the catch block does not unlink
CaughtKeepsFile(dir, q, read, failed) ==
    [dir |-> dir,
     read |-> read,
     failed |-> failed,
     response |-> JsonError(500, "visualizeFailed")]

\* the catch block: the temp file is unlinked when it is there (unlinkSync
\* throws when it is not, which is logged), and 500 is sent; read is the
\* request whose bytes were read before the throw, failed the call that threw
Caught(dir, q, read, failed) ==
    [dir |-> IF q.path \in DOMAIN dir THEN Unlink(dir, q.path) ELSE dir,
     read |-> read,
     failed |-> failed,
     response |-> JsonError(500, "visualizeFailed")]

\* the handler on request q with the temp directory dir, when fault is what
\* throws if the handler gets to it: the directory it leaves, the request
\* whose bytes it read (0: none), the call that threw, and the response
visualize(dir, q, fault) ==
    IF ~ q.hasFile
    THEN [dir |-> dir, read |-> 0, failed |-> "none",
          response |-> JsonError(400, "noFile")]
    ELSE LET format == IF q.format = Null THEN "html" ELSE q.format
             ext == ExtOf(q.name)
         IN  IF ext \notin {".gz", ".log", ".txt"}
             THEN IF q.path \in DOMAIN dir
                  THEN [dir |-> Unlink(dir, q.path), read |-> 0, failed |-> "none",
                        response |-> JsonError(400, "unsupportedFile")]
                  ELSE Caught(dir, q, 0, "unlink")
             ELSE IF q.path \notin DOMAIN dir
             THEN Caught(dir, q, 0, "missing")
             ELSE IF fault = "read"
             THEN Caught(dir, q, 0, "read")
             ELSE IF ext = ".gz" /\ dir[q.path].bytes.enc # "gzip"
             THEN Caught(dir, q, dir[q.path].writer, "gunzip")
             ELSE LET file == dir[q.path]
                      logContent == IF ext = ".gz" THEN file.bytes.lines
                                    ELSE ReadUtf8(file.bytes)
                      parser == parse(NewParser, logContent)
                  IN  IF fault \in {"parse", "render"}
                      THEN Caught(Unlink(dir, q.path), q, file.writer, fault)
                      ELSE [dir |-> Unlink(dir, q.path),
                            read |-> file.writer,
                            failed |-> "none",
                            response |-> [status |-> 200, type |-> "text/html",
                                          body |-> generateHtml(parser)]]

\* the server listens, the temp directory is empty
ApiInit ==
    /\ rtcCallLogs = NewParser.rtcCallLogs
    /\ callIdToLogsMap = NewParser.callIdToLogsMap
    /\ oneToOneCallMap = NewParser.oneToOneCallMap
    /\ groupCallMap = NewParser.groupCallMap
    /\ unknownCallMap = NewParser.unknownCallMap
    /\ callTypeMap = NewParser.callTypeMap
    /\ pc = "idle"
    /\ NoCallInit
    /\ BesideParserInit

\* the Date.now() values of the uploads stored so far
SeenMs == { requests[r].ms : r \in { x \in Requests : requests[x].stage # "none" } }

\* a request with a logFile part arrives: multer names the temp file and opens
\* it for writing, which creates it or empties the file already at that path
ApiReceive(r) ==
    /\ requests[r].stage = "none"
    /\ \E name \in UploadNames, upload \in Uploads, format \in BodyFormats,
          ms \in 1..MaxMs :
          /\ \A t \in SeenMs : t <= ms
          /\ LET path == TempPath(ms, name)
                 inode == IF path \in DOMAIN tempDir THEN tempDir[path].inode ELSE r
             IN  /\ tempDir' = MapPut(tempDir, path,
                                      [inode |-> inode, bytes |-> EmptyBytes, writer |-> 0])
                 /\ requests' = [requests EXCEPT ![r] =
                       [stage |-> "uploading", hasFile |-> TRUE, name |-> name,
                        ms |-> ms, path |-> path, upload |-> upload,
                        format |-> format, inode |-> inode]]
    /\ ParserUnchanged
    /\ UNCHANGED <<pc, dirLeft, ret, countSum, input, calls, prep, disk,
                   diagram, report, writeCall, outFiles>>

\* a request without a logFile part arrives: nothing is stored
ApiReceiveNoFile(r) ==
    /\ requests[r].stage = "none"
    /\ \E ms \in 1..MaxMs :
          /\ \A t \in SeenMs : t <= ms
          /\ requests' = [requests EXCEPT ![r] =
                [stage |-> "stored", hasFile |-> FALSE, name |-> Null,
                 ms |-> ms, path |-> TempPath(ms, Null), upload |-> EmptyBytes,
                 format |-> Null, inode |-> 0]]
    /\ ParserUnchanged
    /\ UNCHANGED <<pc, dirLeft, ret, countSum, input, calls, prep, disk,
                   diagram, report, writeCall,
                   outFiles, tempDir>>

\* the upload's write stream has finished: its bytes are in the file it holds
\* open, which is the file at its path unless that one was unlinked meanwhile
ApiUploadDone(r) ==
    /\ requests[r].stage = "uploading"
    /\ LET q == requests[r]
       IN  tempDir' = IF q.path \in DOMAIN tempDir /\ tempDir[q.path].inode = q.inode
                      THEN [tempDir EXCEPT ![q.path] =
                              [inode |-> q.inode, bytes |-> q.upload, writer |-> r]]
                      ELSE tempDir
    /\ requests' = [requests EXCEPT ![r].stage = "stored"]
    /\ ParserUnchanged
    /\ UNCHANGED <<pc, dirLeft, ret, countSum, input, calls, prep, disk,
                   diagram, report, writeCall, outFiles>>

\* the route handler runs, in one turn, and sends the response
ApiHandle(r) ==
    /\ requests[r].stage = "stored"
    /\ \E fault \in Faults :
          LET done == visualize(tempDir, requests[r], fault)
          IN  /\ tempDir' = done.dir
              /\ requests' = [requests EXCEPT ![r] =
                    [stage |-> "answered", hasFile |-> @.hasFile, name |-> @.name,
                     ms |-> @.ms, path |-> @.path, upload |-> @.upload,
                     format |-> @.format, inode |-> @.inode,
                     read |-> done.read, failed |-> done.failed,
                     response |-> done.response]]
    /\ ParserUnchanged
    /\ UNCHANGED <<pc, dirLeft, ret, countSum, input, calls, prep, disk,
                   diagram, report, writeCall, outFiles>>

ApiNext ==
    \E r \in Requests :
        \/ ApiReceive(r)
        \/ ApiReceiveNoFile(r)
        \/ ApiUploadDone(r)
        \/ ApiHandle(r)

ApiSpec == ApiInit /\ [][ApiNext]_vars

\* =================================================== properties: server
\* C17: POST /api/visualize honours the format field: 'html' or no format gives
\* the HTML document, 'mermaid' gives the plain diagram markup, and any other
\* value gives an error response.
C17_FormatFieldHonoured ==
    \A r \in Requests :
        (requests[r].stage = "answered" /\ requests[r].hasFile) =>
           LET q == requests[r]
           IN  /\ (q.format \in {Null, "html"} /\ q.response.status = 200) =>
                     q.response.body.kind = "html"
               /\ (q.format = "mermaid" /\ q.response.status = 200) =>
                     q.response.body.kind = "mermaid"
               /\ q.format \notin {Null, "html", "mermaid"} => q.response.status >= 400

\* the response the request gets when the temp directory holds its upload
\* only and the same call throws, if any of those of Faults did
ResponseAlone(q) ==
    visualize(MapPut(<<>>, q.path, [inode |-> q.inode, bytes |-> q.upload, writer |-> 0]),
              q, IF q.failed \in Faults THEN q.failed ELSE "none").response

\* C18: under any interleaving of two requests, the same original file name
\* stored in the same millisecond included, each request's report is built
\* from its own upload only, and no request reads, parses or deletes the
\* other's temp file: each gets the response it would get alone.
C18_RequestsIsolated ==
    \A r \in Requests :
        (requests[r].stage = "answered" /\ requests[r].hasFile) =>
           /\ requests[r].read \in {0, r}
           /\ requests[r].response = ResponseAlone(requests[r])

\* C24: for every answered request that carried a file, the temp file multer
\* stored for it is no longer in the upload directory, whichever way the
\* handler went: the report was sent, the extension was refused, or reading,
\* decompressing, parsing or rendering threw.
C24_TempFileRemoved ==
    \A r \in Requests :
        (requests[r].stage = "answered" /\ requests[r].hasFile) =>
           LET q == requests[r]
           IN  ~ (q.path \in DOMAIN tempDir /\ tempDir[q.path].inode = q.inode)

\* two requests were answered, one after its read threw and one after its
\* parse threw, and the upload directory is empty
C24_Witness ==
    /\ \A r \in Requests : requests[r].stage = "answered" /\ requests[r].hasFile
    /\ \E r \in Requests : requests[r].failed = "read"
    /\ \E r \in Requests : requests[r].failed = "parse" /\ requests[r].read = r
    /\ tempDir = <<>>

\* ------------------------------------------------- the scanning runs
\* a line of call "a" with every combination of what the qualifying test looks
\* at, and with all five fields or all but one (missing names the one the
\* regexes do not find; "tsZero" is a line whose in-signal timestamp is 0).
\* The invite token is itself a match of the action regex.
ScanLine1(marker, command, text, invite, missing) ==
    [marker |-> marker, command |-> command, text |-> text, invite |-> invite,
     callId |-> IF missing = "callId" THEN Null ELSE "a",
     from |-> IF missing = "from" THEN Null ELSE "u1",
     to |-> IF missing = "to" THEN Null ELSE "u2",
     action |-> IF missing = "action" THEN Null
                ELSE IF invite = "none" THEN "alert" ELSE "invite",
     ts |-> IF missing = "ts" THEN NoNum ELSE IF missing = "tsZero" THEN 0 ELSE 1,
     msgTimestamp |-> NoNum,
     nestedType |-> IF invite = "none" THEN NoNum ELSE 0]

ScanLineShapes ==
    { ScanLine1(marker, command, text, invite, missing) :
         marker \in BOOLEAN, command \in BOOLEAN, text \in BOOLEAN,
         invite \in {"none", "loose", "exact"},
         missing \in {"none", "callId", "from", "to", "action", "ts", "tsZero"} }
      \ { ScanLine1(marker, command, text, invite, "action") :
            marker \in BOOLEAN, command \in BOOLEAN, text \in BOOLEAN,
            invite \in {"loose", "exact"} }

\* the lines around it: an event of another call, and a line without the marker
ContextLines ==
    { CommandLine("b", 1, NoNum),
      Line(FALSE, TRUE, FALSE, "none", "a", "alert", 1, NoNum, NoNum) }

\* the empty file, and the files of one line of any shape among context lines
ScanFiles ==
    { <<>> } \cup
    { before \o <<l>> \o after :
         before \in SeqUpTo(ContextLines, MaxContext),
         l \in ScanLineShapes,
         after \in SeqUpTo(ContextLines, MaxContext) }

\* parseLogFile(path) was called on a new parser and awaits readFile; input is
\* what the file holds
ScanInit ==
    /\ rtcCallLogs = NewParser.rtcCallLogs
    /\ callIdToLogsMap = NewParser.callIdToLogsMap
    /\ oneToOneCallMap = NewParser.oneToOneCallMap
    /\ groupCallMap = NewParser.groupCallMap
    /\ unknownCallMap = NewParser.unknownCallMap
    /\ callTypeMap = NewParser.callTypeMap
    /\ pc = "file"
    /\ NoCallInit
    /\ input \in ScanFiles
    /\ diagram = NoOutput
    /\ report = NoOutput
    /\ writeCall = NoWrite
    /\ outFiles = <<>>
    /\ requests = [r \in Requests |-> NotSent]
    /\ tempDir = <<>>
    /\ calls = <<>>
    /\ prep = NoPrep
    /\ disk = <<>>

\* readFile resolved with the content of the file
ParseLogFileReadInput ==
    /\ pc = "file"
    /\ ParseLogFileBody(input)
    /\ pc' = "returned"
    /\ UNCHANGED <<dirLeft, besideParser>>

ScanNext ==
    \/ ParseLogFileReadInput
    \/ ParseLogFileFail
    \/ GenerateHtml

ScanSpec == ScanInit /\ [][ScanNext]_vars

\* ================================================= properties: scanning
\* the line passes the test that makes parseLogFile look at it
QualifyingLine(l) == l.marker /\ (l.command \/ (l.text /\ l.invite \in {"loose", "exact"}))
\* callId, from, to, action and timestamp can all be extracted from the line
FieldsExtractable(l) ==
    l.callId # Null /\ l.from # Null /\ l.to # Null /\ l.action # Null /\ l.ts # NoNum
\* the lines of the input that the claim says add an event
EventLines == SelectSeq(input, LAMBDA l : QualifyingLine(l) /\ FieldsExtractable(l))

\* C14: a scanned line adds an event if and only if it contains the signaling
\* marker, contains the command-payload marker or both the text-payload
\* marker and the invite action token, and callId, from, to, action and
\* timestamp can all be extracted; any other line adds no event and creates
\* no session.
C14_EventIffQualifyingAndExtractable ==
    IF pc = "returned"
    THEN /\ [k \in 1..Len(rtcCallLogs) |-> rtcCallLogs[k].rawLog] = EventLines
         /\ SessionSet = { EventLines[k].callId : k \in 1..Len(EventLines) }
         /\ ret = Len(EventLines)
    ELSE rtcCallLogs = <<>> /\ callIdToLogsMap = <<>>

\* a text line with the invite token was stored after an event of another
\* call, and the line without the marker that follows it was not
C14_Witness ==
    /\ pc = "returned"
    /\ Len(input) = 3
    /\ input[1] = CommandLine("b", 1, NoNum)
    /\ input[2] = ScanLine1(TRUE, FALSE, TRUE, "loose", "tsZero")
    /\ ~ input[3].marker
    /\ Len(rtcCallLogs) = 2
    /\ rtcCallLogs[2].rawLog = input[2]
    /\ SessionKeys(callIdToLogsMap) = <<"b", "a">>

\* the input without its qualifying lines that cannot be extracted
WithoutUnextractable ==
    SelectSeq(input, LAMBDA l : ~ (QualifyingLine(l) /\ ~ FieldsExtractable(l)))

\* C15: a qualifying line whose five fields cannot all be extracted does not
\* stop the scan and changes no state: every later line is still processed,
\* and the store and the count are those of the input without that line.
C15_UnextractableLineIsSkipped ==
    pc = "returned" =>
       /\ Parser = ParseContent(NewParser, WithoutUnextractable)
       /\ ret = CountAccepted(WithoutUnextractable, 1)
       /\ \A k \in 1..Len(input) :
             (QualifyingLine(input[k]) /\ FieldsExtractable(input[k])) =>
                \E j \in 1..Len(rtcCallLogs) : rtcCallLogs[j].rawLog = input[k]

\* a qualifying line without a timestamp stood before an event line, and the
\* event was stored
C15_Witness ==
    /\ pc = "returned"
    /\ Len(input) = 2
    /\ input[1] = ScanLine1(TRUE, TRUE, FALSE, "none", "ts")
    /\ input[2] = CommandLine("b", 1, NoNum)
    /\ ret = 1
    /\ SessionKeys(callIdToLogsMap) = <<"b">>

\* C20: parsing input none of whose lines qualifies is not an error: the parse
\* returns count 0, the statistics are all zero, and the generated document
\* has an empty call index and no sections.
C20_NothingQualifyingGivesEmptyReport ==
    (pc = "returned" /\ \A k \in 1..Len(input) : ~ QualifyingLine(input[k])) =>
       /\ ret = 0
       /\ getCallTypeStatistics(Parser)
             = [total |-> 0, oneToOne |-> 0, group |-> 0, unknown |-> 0]
       /\ generateHtml(Parser).index = <<>>
       /\ generateHtml(Parser).sections = <<>>
       /\ report.kind = "html" =>
             /\ report.statistics = getCallTypeStatistics(Parser)
             /\ report.index = <<>>
             /\ report.sections = <<>>

\* the document was generated after a parse of lines that hold the marker but
\* no payload marker
C20_Witness ==
    /\ pc = "returned"
    /\ report.kind = "html"
    /\ Len(input) = 2
    /\ input[1] = ScanLine1(TRUE, FALSE, FALSE, "none", "none")
    /\ ~ input[2].marker
    /\ ret = 0

\* --------------------------------------------- parsing one file again
\* the lines of the files parsed again: an event and invites of both
\* categories for call "a", a group invite for call "b"
ReparseLines ==
    { CommandLine("a", 1, NoNum), InviteLine("a", 1), InviteLine("a", MaxType),
      InviteLine("b", MaxType) }

ReparseFiles == SeqUpTo(ReparseLines, MaxFileLen)

\* a parser that has parsed some file before, and the file X it is about to
\* be given, any number of times, with clears in between
ReparseInit ==
    /\ \E before \in ReparseFiles :
          LET parsed == ParseContent(NewParser, before)
          IN  /\ rtcCallLogs = parsed.rtcCallLogs
              /\ callIdToLogsMap = parsed.callIdToLogsMap
              /\ oneToOneCallMap = parsed.oneToOneCallMap
              /\ groupCallMap = parsed.groupCallMap
              /\ unknownCallMap = parsed.unknownCallMap
              /\ callTypeMap = parsed.callTypeMap
              /\ countSum = CountAccepted(before, 1)
    /\ pc = "idle"
    /\ dirLeft = 0
    /\ ret = NoNum
    /\ input \in ReparseFiles
    /\ diagram = NoOutput
    /\ report = NoOutput
    /\ writeCall = NoWrite
    /\ outFiles = <<>>
    /\ requests = [r \in Requests |-> NotSent]
    /\ tempDir = <<>>
    /\ calls = <<>>
    /\ prep = NoPrep
    /\ disk = <<>>

\* parseLogFile(X) is called, while the store has room for X once more
ReparseCall ==
    /\ Len(rtcCallLogs) <= MaxFileLen
    /\ ParseLogFileCall

ReparseNext ==
    \/ ReparseCall
    \/ ParseLogFileReadInput
    \/ ParseLogFileFail
    \/ clearRtcCallLogs
    \/ GenerateHtml

ReparseSpec == ReparseInit /\ [][ReparseNext]_vars

\* the parser a newly constructed one becomes by parsing X
ParsedOnce == ParseContent(NewParser, input)

\* C22: after clearRtcCallLogs the store, the event list, the categories and
\* the three partitions are empty and the statistics are zero (the parser is
\* as constructed whenever nothing was counted since the last clear); and when
\* parseLogFile(X) has returned as the only parse since the store was last
\* empty, sessions, categories, partitions and statistics are those of
\* parsing X on a new parser.
C22_ClearIsLikeNew ==
    /\ countSum = 0 =>
          /\ rtcCallLogs = <<>> /\ callIdToLogsMap = <<>> /\ callTypeMap = <<>>
          /\ oneToOneCallMap = <<>> /\ groupCallMap = <<>> /\ unknownCallMap = <<>>
          /\ Parser = NewParser
          /\ getCallTypeStatistics(Parser) =
               [total |-> 0, oneToOne |-> 0, group |-> 0, unknown |-> 0]
    /\ (pc = "returned" /\ countSum = ret) =>
          /\ Readable(Parser) = Readable(ParsedOnce)
          /\ rtcCallLogs = ParsedOnce.rtcCallLogs

\* X was parsed alone after a clear: the document rendered before the clear
\* lists two sessions, the first of another category than it has now
C22_Witness ==
    /\ pc = "returned"
    /\ countSum = ret
    /\ ret > 0
    /\ report.kind = "html"
    /\ Len(report.index) = 2
    /\ Len(callIdToLogsMap) = 1
    /\ callIdToLogsMap[1].callId = report.index[1].callId
    /\ getCallType(Parser, callIdToLogsMap[1].callId) # report.index[1].callType

\* C29: when the parser holds exactly what parsing X once on a new parser
\* leaves, parsing X again doubles every session's events (each session's
\* list is followed by itself) and the event list, and leaves the sessions,
\* their order, their categories, the partitions' keys and the statistics
\* as they were.
C29_SecondParseDoublesEvents ==
    [][ (/\ pc = "file" /\ pc' = "returned"
         /\ Parser = ParsedOnce)
        => /\ SessionKeys(callIdToLogsMap') = SessionKeys(callIdToLogsMap)
           /\ \A i \in 1..Len(callIdToLogsMap) :
                 /\ callIdToLogsMap'[i].logs
                      = callIdToLogsMap[i].logs \o callIdToLogsMap[i].logs
                 /\ Len(callIdToLogsMap'[i].logs) = 2 * Len(callIdToLogsMap[i].logs)
           /\ rtcCallLogs' = rtcCallLogs \o rtcCallLogs
           /\ callTypeMap' = callTypeMap
           /\ oneToOneCallMap' = oneToOneCallMap
           /\ groupCallMap' = groupCallMap
           /\ unknownCallMap' = unknownCallMap
           /\ getCallTypeStatistics(Parser)' = getCallTypeStatistics(Parser)
           /\ ret' = Len(rtcCallLogs) ]_vars

\* X, a file of two sessions in two categories, was parsed twice in a row
C29_Witness ==
    /\ pc = "returned"
    /\ ret = MaxFileLen
    /\ countSum = 2 * ret
    /\ Len(rtcCallLogs) = 2 * MaxFileLen
    /\ Len(callIdToLogsMap) = 2
    /\ Len(groupCallMap) = 1
    /\ rtcCallLogs = ParsedOnce.rtcCallLogs \o ParsedOnce.rtcCallLogs

\* the number of entries of the call index badged with category t
Badged(doc, t) == Cardinality({ i \in 1..Len(doc.index) : doc.index[i].callType = t })

\* doc has one index entry and one section per session of p, in session
\* order, each section badged as its index entry
OnePerSession(doc, p) ==
    /\ Len(doc.index) = Len(p.callIdToLogsMap)
    /\ Len(doc.sections) = Len(p.callIdToLogsMap)
    /\ \A i \in 1..Len(p.callIdToLogsMap) :
          /\ doc.index[i].callId = p.callIdToLogsMap[i].callId
          /\ doc.sections[i].callId = p.callIdToLogsMap[i].callId
          /\ doc.sections[i].callType = doc.index[i].callType
          /\ doc.sections[i].logsCount = Len(p.callIdToLogsMap[i].logs)

\* C25: the document generateHtml() composes has exactly one index entry and
\* one section per session of the store, in session order, and the number of
\* sessions badged oneToOne, group, unknown equals the statistics counter of
\* that category shown in the same document.
C25_DocumentAgreesWithStatistics ==
    /\ [](report.kind = "html" =>
            /\ Len(report.index) = report.statistics.total
            /\ Len(report.sections) = report.statistics.total
            /\ Badged(report, "oneToOne") = report.statistics.oneToOne
            /\ Badged(report, "group") = report.statistics.group
            /\ Badged(report, "unknown") = report.statistics.unknown)
    /\ [][ report' # report => OnePerSession(report', Parser) ]_vars

\* a document of two sessions, one badged oneToOne and one badged group, was
\* composed of a store that holds more events than sessions
C25_Witness ==
    /\ report.kind = "html"
    /\ Len(report.index) = 2
    /\ Badged(report, "oneToOne") = 1
    /\ Badged(report, "group") = 1
    /\ report.sections[1].logsCount > 1

\* --------------------------------------------- invite lines with times
\* an invite line of call "a" with nested type v, in-signal timestamp ts and
\* outer message timestamp msg
TimedInviteLine(v, ts, msg) == Line(TRUE, FALSE, TRUE, "exact", "a", "invite", ts, msg, v)

\* the lines of the timed inputs: an event without a type, and invites of
\* both categories at every in-signal time, without an outer message time or
\* with one that runs against the in-signal time
TimedLines ==
    { CommandLine("a", 1, NoNum) }
      \cup UNION { { TimedInviteLine(v, ts, msg) :
                        v \in {1, MaxType}, msg \in {NoNum, MaxTs + 1 - ts} } :
                    ts \in 1..MaxTs }

\* the files of at most n timed lines
TimedFiles(n) == SeqUpTo(TimedLines, IF n < MaxFileLen THEN n ELSE MaxFileLen)

\* readFile resolved with a file of timed lines that fits the store
TimedRead ==
    /\ pc = "file"
    /\ \E content \in TimedFiles(MaxEvents - Len(rtcCallLogs)) : ParseLogFileBody(content)
    /\ pc' = "returned"
    /\ UNCHANGED <<dirLeft, besideParser>>

TimedNext ==
    \/ ParseLogFileCall
    \/ TimedRead
    \/ ParseLogFileFail

TimedSpec == Init /\ [][TimedNext]_vars

\* the events of logs whose line is an invite line that yields a type
TypedInvites(logs) == { i \in 1..Len(logs) : IsTypedInvite(logs[i].rawLog) }

\* C26 as stated: a session that holds several invite lines with an
\* extractable nested type has the category of the one that comes first in
\* storage order, whatever the timestamps are.
C26_FirstStoredTypedInviteDecides ==
    \A i \in 1..Len(callIdToLogsMap) :
        LET logs == callIdToLogsMap[i].logs
        IN  Cardinality(TypedInvites(logs)) >= 2 =>
               getCallType(Parser, callIdToLogsMap[i].callId)
                 = CategoryOfType(logs[FirstTypedInvite(logs)].rawLog.nestedType)

\* C26 amended: when a session is first classified while it holds several
\* invite lines with an extractable nested type, the one that comes first in
\* storage order gives the category, whatever the in-signal and message
\* timestamps are; once recorded the category stays, so a session recorded
\* as unknown keeps that category when typed invite lines are appended.
C26_FirstStoredTypedInviteDecidesWhenRecorded ==
    [][ /\ \A c \in (DOMAIN callTypeMap') \ (DOMAIN callTypeMap) :
              LET logs == LogsOf(callIdToLogsMap', c)
              IN  Cardinality(TypedInvites(logs)) >= 2 =>
                     callTypeMap'[c]
                       = CategoryOfType(logs[FirstTypedInvite(logs)].rawLog.nestedType)
        /\ \A c \in (DOMAIN callTypeMap') \cap (DOMAIN callTypeMap) :
              callTypeMap'[c] = callTypeMap[c]
      ]_vars

\* a session with two typed invites of different categories, the first in
\* storage order being the later one by display time, and the first decided
C26_Witness ==
    /\ pc = "returned"
    /\ Len(callIdToLogsMap) = 1
    /\ LET logs == callIdToLogsMap[1].logs
       IN  /\ Len(logs) = 2
           /\ TypedInvites(logs) = {1, 2}
           /\ sortKey(logs[1]) > sortKey(logs[2])
           /\ logs[1].ts < logs[2].ts
           /\ logs[1].rawLog.nestedType = MaxType
           /\ logs[2].rawLog.nestedType = 1
    /\ getCallType(Parser, "a") = "group"

\* --------------------------------- two parseLogFile calls pending together
\* the lines of the two files: an event of each call and a group invite
ConcLines ==
    { CommandLine("a", 1, NoNum), CommandLine("b", 1, NoNum), InviteLine("a", MaxType) }

ConcFiles == SeqUpTo(ConcLines, MaxFileLen)

\* the two calls
ConcCalls == {1, 2}

\* parseLogFile(path1) and parseLogFile(path2) are called in one turn on a new
\* parser, without awaiting the first: both await their readFile
ConcStart ==
    /\ calls = <<>>
    /\ \E f1 \in ConcFiles, f2 \in ConcFiles :
          calls' = << [stage |-> "reading", content |-> f1, count |-> NoNum],
                      [stage |-> "reading", content |-> f2, count |-> NoNum] >>
    /\ ParserUnchanged
    /\ UNCHANGED <<pc, dirLeft, ret, countSum, input, diagram, report, writeCall,
                   outFiles, requests, tempDir, prep, disk>>

\* the readFile of call i resolved: in one turn the call scans its lines,
\* rebuilds the partitions and resolves with its count
ConcRead(i) ==
    /\ calls # <<>>
    /\ calls[i].stage = "reading"
    /\ SetParser(ParseContent(Parser, calls[i].content))
    /\ countSum' = countSum + CountAccepted(calls[i].content, 1)
    /\ calls' = [calls EXCEPT ![i].stage = "returned",
                              ![i].count = CountAccepted(calls[i].content, 1)]
    /\ UNCHANGED <<pc, dirLeft, ret, input, diagram, report, writeCall,
                   outFiles, requests, tempDir, prep, disk>>

\* the readFile of call i rejected: the call logs and rejects
ConcFail(i) ==
    /\ calls # <<>>
    /\ calls[i].stage = "reading"
    /\ calls' = [calls EXCEPT ![i].stage = "failed"]
    /\ ParserUnchanged
    /\ UNCHANGED <<pc, dirLeft, ret, countSum, input, diagram, report, writeCall,
                   outFiles, requests, tempDir, prep, disk>>

ConcNext ==
    \/ ConcStart
    \/ \E i \in ConcCalls : ConcRead(i) \/ ConcFail(i)

ConcSpec == Init /\ [][ConcNext]_vars

\* the parser after the calls of order have run one after the other, each
\* awaited before the next is made; a call whose read fails changes nothing
RECURSIVE Serial(_, _, _)
Serial(p, order, k) ==
    IF k > Len(order) THEN p
    ELSE Serial(IF calls[order[k]].stage = "returned"
                THEN ParseContent(p, calls[order[k]].content) ELSE p,
                order, k + 1)

\* the events file i gives when parsed alone
EventsOf(i) ==
    IF calls[i].stage = "returned"
    THEN ParseContent(NewParser, calls[i].content).rtcCallLogs ELSE <<>>

\* C28: whatever the order in which the reads of two parseLogFile calls
\* started together resolve or reject, once both calls have settled the
\* parser is the one that running them one after the other leaves, in one
\* of the two orders; the events of one file are never interleaved with the
\* other's; and between any two turns, while a call is still pending
\* included, every session is in exactly one partition.
C28_ConcurrentParsesSerialize ==
    /\ C1_PartitionsCoverSessions
    /\ (calls # <<>> /\ \A i \in ConcCalls : calls[i].stage # "reading") =>
          /\ Parser \in { Serial(NewParser, <<1, 2>>, 1), Serial(NewParser, <<2, 1>>, 1) }
          /\ rtcCallLogs \in { EventsOf(1) \o EventsOf(2), EventsOf(2) \o EventsOf(1) }
    /\ (calls # <<>> /\ \E i \in ConcCalls : calls[i].stage = "reading") =>
          \E i \in ConcCalls : rtcCallLogs \in { <<>>, EventsOf(i) }

\* both calls returned, the second before the first, and the two orders give
\* different parsers: the session the first file alone would leave unknown
\* is a group call
C28_Witness ==
    /\ calls # <<>>
    /\ \A i \in ConcCalls : calls[i].stage = "returned" /\ calls[i].count > 0
    /\ Serial(NewParser, <<1, 2>>, 1) # Serial(NewParser, <<2, 1>>, 1)
    /\ Parser = Serial(NewParser, <<2, 1>>, 1)
    /\ getCallType(Parser, "a") = "group"
    /\ getCallType(Serial(NewParser, <<1, 2>>, 1), "a") = "unknown"

\* ------------------------------- LogPreprocessor.processSingleFile
\* a line of a log given to the preprocessor is kept as the time its
\* `[yyyy/mm/dd hh:mm:ss:mmm(zz)]` prefix holds, NoNum when timeRegex does
\* not match it
PrepLineTimes == {NoNum} \cup (1..MaxTs)

PrepContents == SeqUpTo(PrepLineTimes, MaxFileLen)

\* path.join(dirname(logFilePath), basename(logFilePath, '.gz') + '.txt')
TempTxtPath(logFilePath) == "call.txt"

\* path.join(this.inputDir, `log_${startTime}_${endTime}.txt`)
NewFilePath(startTime, endTime) ==
    "logInput/log_" \o ToString(startTime) \o "_" \o ToString(endTime) \o ".txt"

\* the two loops of getLogTimeRange on the lines of the .txt file: the first
\* matching line from the front and the first from the back; it throws when
\* `!startTime || !endTime`
getLogTimeRange(lines) ==
    LET matching == { i \in 1..Len(lines) : lines[i] # NoNum }
    IN  IF matching = {} THEN [threw |-> TRUE, startTime |-> NoNum, endTime |-> NoNum]
        ELSE [threw |-> FALSE,
              startTime |-> lines[CHOOSE i \in matching : \A j \in matching : i <= j],
              endTime |-> lines[CHOOSE i \in matching : \A j \in matching : i >= j]]

\* a directory that holds one log file, compressed or not, under a name
\* with one of the three extensions
PrepInit ==
    /\ rtcCallLogs = NewParser.rtcCallLogs
    /\ callIdToLogsMap = NewParser.callIdToLogsMap
    /\ oneToOneCallMap = NewParser.oneToOneCallMap
    /\ groupCallMap = NewParser.groupCallMap
    /\ unknownCallMap = NewParser.unknownCallMap
    /\ callTypeMap = NewParser.callTypeMap
    /\ pc = "idle"
    /\ NoCallInit
    /\ input = <<>>
    /\ diagram = NoOutput
    /\ report = NoOutput
    /\ writeCall = NoWrite
    /\ outFiles = <<>>
    /\ requests = [r \in Requests |-> NotSent]
    /\ tempDir = <<>>
    /\ calls = <<>>
    /\ prep = NoPrep
    /\ \E name \in UploadNames, lines \in PrepContents :
          \E bytes \in {PlainBytes(lines), GzipBytes(lines)} :
             disk = MapPut(<<>>, name, bytes)

PrepUnchanged ==
    UNCHANGED <<pc, dirLeft, ret, countSum, input, diagram, report, writeCall,
                outFiles, requests, tempDir, calls>>

\* processSingleFile(logFilePath) is called: a .gz path awaits extractGzFile,
\* a .log path awaits getLogTimeRange on the file itself, any other throws
PrepCall ==
    /\ prep.stage = "none"
    /\ \E logFilePath \in DOMAIN disk :
          LET fileExt == ExtOf(logFilePath)
          IN  prep' = IF fileExt = ".gz"
                      THEN [stage |-> "extract", logFilePath |-> logFilePath,
                            txtFilePath |-> TempTxtPath(logFilePath)]
                      ELSE IF fileExt = ".log"
                      THEN [stage |-> "timeRange", logFilePath |-> logFilePath,
                            txtFilePath |-> logFilePath]
                      ELSE [stage |-> "threw", logFilePath |-> logFilePath,
                            txtFilePath |-> Null]
    /\ disk' = disk
    /\ ParserUnchanged
    /\ PrepUnchanged

\* extractGzFile went through: the .gz was read, gunzip resolved and the
\* decompressed buffer was written to the temp path; gunzip rejects on bytes
\* that are not gzip, and processSingleFile rethrows
PrepExtract ==
    /\ prep.stage = "extract"
    /\ LET bytes == disk[prep.logFilePath]
       IN  IF bytes.enc = "gzip"
           THEN /\ disk' = MapPut(disk, prep.txtFilePath, PlainBytes(bytes.lines))
                /\ prep' = [prep EXCEPT !.stage = "timeRange"]
           ELSE /\ disk' = disk
                /\ prep' = [prep EXCEPT !.stage = "threw"]
    /\ ParserUnchanged
    /\ PrepUnchanged

\* getLogTimeRange went through: the range is returned and the copy starts,
\* or no line matched and the error is rethrown by processSingleFile
PrepTimeRange ==
    /\ prep.stage = "timeRange"
    /\ LET range == getLogTimeRange(ReadUtf8(disk[prep.txtFilePath]))
       IN  prep' = IF range.threw
                   THEN [stage |-> "threw", logFilePath |-> prep.logFilePath,
                         txtFilePath |-> prep.txtFilePath]
                   ELSE [stage |-> "copy", logFilePath |-> prep.logFilePath,
                         txtFilePath |-> prep.txtFilePath,
                         newFilePath |-> NewFilePath(range.startTime, range.endTime)]
    /\ disk' = disk
    /\ ParserUnchanged
    /\ PrepUnchanged

\* the copy into the input directory resolved: in the same turn the temp
\* file of a .gz input is unlinked and the call returns
PrepCopy ==
    /\ prep.stage = "copy"
    /\ LET copied == MapPut(disk, prep.newFilePath, disk[prep.txtFilePath])
       IN  disk' = IF ExtOf(prep.logFilePath) = ".gz"
                   THEN Unlink(copied, prep.txtFilePath) ELSE copied
    /\ prep' = [stage |-> "returned", logFilePath |-> prep.logFilePath,
                txtFilePath |-> prep.txtFilePath]
    /\ ParserUnchanged
    /\ PrepUnchanged

\* a readFile or writeFile of the stage the call is in rejected: the catch
\* blocks log and rethrow
PrepIoFail ==
    /\ prep.stage \in {"extract", "timeRange", "copy"}
    /\ prep' = [stage |-> "threw", logFilePath |-> prep.logFilePath,
                txtFilePath |-> prep.txtFilePath]
    /\ disk' = disk
    /\ ParserUnchanged
    /\ PrepUnchanged

PrepNext ==
    \/ PrepCall
    \/ PrepExtract
    \/ PrepTimeRange
    \/ PrepCopy
    \/ PrepIoFail

PrepSpec == PrepInit /\ [][PrepNext]_vars

\* C30: once processSingleFile on a .gz input has returned or thrown, the
\* temporary decompressed .txt file next to the input no longer exists.
C30_TempTxtRemoved ==
    (prep.stage \in {"returned", "threw"} /\ ExtOf(prep.logFilePath) = ".gz") =>
       TempTxtPath(prep.logFilePath) \notin DOMAIN disk

====
